---- MODULE Spec2Model ----
(***************************************************************************)
(* A model of the reliability layer of lattiq/mailer: the circuit breaker, *)
(* the token-bucket rate limiter, the retry manager and Client.Send, which *)
(* composes them around the primary and the fallback provider, with        *)
(* Client.SendBatch and Client.SendTemplate on top of it.                  *)
(*                                                                         *)
(* Every region of code that runs under the breaker's mutex is one atomic  *)
(* action; every channel operation of the rate limiter is one atomic       *)
(* action; callers interleave between them.  Time is an integer clock.     *)
(***************************************************************************)
EXTENDS Integers, Sequences, FiniteSets, TLC

(***************************************************************************)
(* Bounds of the model.                                                    *)
(***************************************************************************)
MaxTime == 2          \* the clock stops here
MaxThreshold == 2     \* FailureThreshold, SuccessThreshold in 1..MaxThreshold
MaxTimeout == 2       \* Timeout, ResetTimeout in 0..MaxTimeout
MaxCalls == 4         \* Execute calls started in one behaviour
MaxWaits == 5         \* Wait calls started in one behaviour
MaxRate == 2          \* Rate in 1..MaxRate
MaxPeriod == 2        \* Period in 1..MaxPeriod
MaxBurst == 2         \* Burst in 1..MaxBurst
MaxRecipients == 2    \* recipients of an email in 1..MaxRecipients
MaxSends == 2         \* Send calls started in one behaviour
MaxRetryAttempts == 2 \* MaxAttempts in 1..MaxRetryAttempts
MaxHint == 1          \* retry-after hints of provider errors in 1..MaxHint
MaxDuration == 63     \* the largest time.Duration (math.MaxInt64, scaled down)
MaxBackoffAttempts == 5 \* MaxAttempts in 1..MaxBackoffAttempts for calculateDelay
MaxBatch == 3         \* emails of a SendBatch call in 0..MaxBatch
MaxFailed == 2        \* failures a provider reports for a batch in 0..MaxFailed
MaxLockCalls == 3     \* calls of the breaker started in one behaviour of SpecLock
MaxClientCalls == 2   \* Send, SendBatch, SendTemplate calls started in one behaviour

Callers == {"c1", "c2"}

VARIABLES
    now,            \* the clock: time.Now()
    cbConfig,       \* CircuitBreaker.config
    state,          \* CircuitBreaker.state
    failureCount,   \* CircuitBreaker.failureCount
    successCount,   \* CircuitBreaker.successCount
    lastFailTime,   \* CircuitBreaker.lastFailTime
    pc,             \* where each caller is
    op,             \* the exported operation each caller is in
    err,            \* the error value each caller holds
    calls,          \* calls started so far
    ctxDone,        \* the caller's context is cancelled
    rlConfig,       \* RateLimiter.config
    tokens,         \* len(RateLimiter.tokens): the tokens in the bucket
    nextRefill,     \* when the refill ticker fires next
    needed,         \* tokensNeeded of the caller's Wait
    got,            \* i of the caller's Wait: the tokens it has taken
    retryAfter,     \* the retry-after the caller's error carries (0: none)
    client,         \* which of circuitBreaker, retryManager, rateLimiter, fallback
                    \* (and, where SendTemplate is called, templateEng) are set
    retryConfig,    \* RetryManager.config
    closed,         \* Client.closed
    via,            \* who invoked the caller's unit of work: "cb", "direct", "retry"
    attempt,        \* attempt of the caller's Retry loop
    wakeAt,         \* when the timer of the caller's Retry delay fires
    result,         \* the provider whose SendResult the caller's Send holds
    emails,         \* the emails of the caller's SendBatch
    index,          \* i of the loop the caller's SendBatch is in
    batchErr,       \* the BatchError the caller's SendBatch builds and returns
    rendering,      \* the request of the caller's SendTemplate, what Render returned
                    \* for its templates and the fields of the Email built of them
    mutex,          \* CircuitBreaker.mutex: the callers holding it for reading, those
                    \* holding it for writing, those blocked in Lock
    local,          \* the locals of the caller's canExecute and recordResult
    \* history variables, read by the properties only
    invoked,        \* the wrapped operation ran in the caller's current Execute
    admittedAs,     \* the breaker state in which the caller was admitted
    wrote,          \* the caller's canExecute changed the breaker
    streak,         \* consecutive failures recorded since Closed with count 0
    hoFailAt,       \* the time of the last failure recorded in HalfOpen
    hoSucc,         \* successes recorded since HalfOpen was entered
    ticks,          \* refill ticks so far
    preRefill,      \* the tokens in the bucket just before the last refill tick
    granted,        \* Wait calls that returned nil since the last refill tick
    fnCount,        \* invocations of the unit of work in the caller's current Send
    unguarded,      \* one of them bypassed the configured breaker
    batchHist       \* what the provider's SendBatch returned to the caller's SendBatch,
                    \* and the indices of the emails it gave to Send

cbVars == <<cbConfig, state, failureCount, successCount, lastFailTime>>
cbHist == <<invoked, admittedAs, wrote, streak, hoFailAt, hoSucc>>
rlVars == <<rlConfig, tokens, nextRefill>>
rlLocal == <<needed, got, retryAfter>>
rlHist == <<ticks, preRefill, granted>>
rlAll == <<rlVars, rlLocal, rlHist>>
sendVars == <<client, retryConfig, closed, via, attempt, wakeAt>>
sendHist == <<fnCount, unguarded>>
batchVars == <<emails, index, batchErr, batchHist, rendering>>
sendAll == <<sendVars, sendHist, result, batchVars>>
lockVars == <<mutex, local>>
notBreaker == <<ctxDone, rlAll, sendAll, lockVars>>
notLimiter == <<cbVars, cbHist, sendAll, lockVars>>
vars == <<now, cbVars, pc, op, err, calls, cbHist, ctxDone, rlAll, sendAll, lockVars>>

(***************************************************************************)
(* Circuit breaker                                                         *)
(***************************************************************************)
CircuitBreakerClosed == "closed"
CircuitBreakerOpen == "open"
CircuitBreakerHalfOpen == "half-open"

\* lastFailTime of a new breaker is the zero time.Time
ZeroTime == 0 - 1
Broken == 0 - 1

\* time.Since(t); for the zero time it exceeds every configured duration
Since(t) == IF t = ZeroTime THEN MaxTime + MaxTimeout + 2 ELSE now - t

\* time.Since(t) >= d
Elapsed(t, d) == Since(t) >= d

CBConfigs ==
    [Enabled : BOOLEAN,
     FailureThreshold : 1..MaxThreshold,
     SuccessThreshold : 1..MaxThreshold,
     Timeout : 0..MaxTimeout,
     ResetTimeout : {0, MaxTimeout}]

\* err != nil in recordResult
IsFailureInverted(e) == e = "nil"
IsFailure(e) == e # "nil"

\* cb.state == CircuitBreakerClosed && cb.failureCount >= cb.config.FailureThreshold
ShouldOpenStrict(st, fc) == st = CircuitBreakerClosed /\ fc > cbConfig.FailureThreshold
ShouldOpen(st, fc) == st = CircuitBreakerClosed /\ fc >= cbConfig.FailureThreshold

\* cb.state == CircuitBreakerHalfOpen && cb.successCount >= cb.config.SuccessThreshold
ShouldCloseEarly(st, sc) == st = CircuitBreakerHalfOpen /\ sc >= cbConfig.SuccessThreshold - 1
ShouldClose(st, sc) == st = CircuitBreakerHalfOpen /\ sc >= cbConfig.SuccessThreshold

\* cb.lastFailTime = time.Now()
StaleLastFailTime == lastFailTime
NewLastFailTime == now

\* time.Since(cb.lastFailTime) >= cb.config.ResetTimeout
IsStaleAlways == Elapsed(lastFailTime, 0)
IsStale == Elapsed(lastFailTime, cbConfig.ResetTimeout)

\* the second check of canExecute, under the write lock
DoubleCheck == state = CircuitBreakerOpen /\ Elapsed(lastFailTime, cbConfig.Timeout)

\* recordResult(err): the new state, failureCount, successCount, lastFailTime
RecordResult(e) ==
    IF IsFailure(e)
    THEN LET fc == failureCount + 1
         IN  [state |-> IF ShouldOpen(state, fc) THEN CircuitBreakerOpen
                        ELSE IF state = CircuitBreakerHalfOpen THEN CircuitBreakerOpen
                        ELSE state,
              failureCount |-> fc,
              successCount |-> successCount,
              lastFailTime |-> NewLastFailTime]
    ELSE LET sc == successCount + 1
             close == ShouldClose(state, sc)
             st == IF close THEN CircuitBreakerClosed ELSE state
             fc == IF close THEN 0 ELSE failureCount
         IN  [state |-> st,
              failureCount |-> IF st = CircuitBreakerClosed /\ IsStale
                               THEN 0 ELSE fc,
              successCount |-> sc,
              lastFailTime |-> lastFailTime]

Goto(p, l) == pc' = [pc EXCEPT ![p] = l]

\* the caller is inside Client.Send: called directly, by SendTemplate, or
\* for one email by sendBatchIndividually
InSend(p) == op[p] \in {"send", "template", "batch"}

\* where Execute returns to: its caller is Client.Send, or the call is over
Return(p) == IF InSend(p) THEN "send_executed" ELSE "idle"

\* A caller calls CircuitBreaker.Execute(fn): if !cb.config.Enabled { return fn() }
ExecuteCall(p) ==
    /\ pc[p] = "idle"
    /\ calls < MaxCalls
    /\ calls' = calls + 1
    /\ op' = [op EXCEPT ![p] = "execute"]
    /\ err' = [err EXCEPT ![p] = "nil"]
    /\ Goto(p, IF cbConfig.Enabled THEN "cb_check" ELSE "fn")
    /\ invoked' = [invoked EXCEPT ![p] = FALSE]
    /\ admittedAs' = [admittedAs EXCEPT ![p] = "none"]
    /\ wrote' = [wrote EXCEPT ![p] = FALSE]
    /\ UNCHANGED <<now, cbVars, streak, hoFailAt, hoSucc>>
    /\ UNCHANGED notBreaker

\* canExecute, under the read lock: the switch on cb.state
CanExecuteCheck(p) ==
    /\ pc[p] = "cb_check"
    /\ IF state = CircuitBreakerOpen
       THEN IF Elapsed(lastFailTime, cbConfig.Timeout)
            THEN /\ Goto(p, "cb_upgrade")
                 /\ UNCHANGED <<err, admittedAs>>
            ELSE /\ Goto(p, Return(p))
                 /\ err' = [err EXCEPT ![p] = "circuit_open"]
                 /\ UNCHANGED admittedAs
       ELSE /\ Goto(p, "fn")
            /\ admittedAs' = [admittedAs EXCEPT ![p] = state]
            /\ UNCHANGED err
    /\ UNCHANGED <<now, cbVars, op, calls, invoked, wrote, streak, hoFailAt, hoSucc>>
    /\ UNCHANGED notBreaker

\* canExecute, under the write lock: the double check and the transition
CanExecuteUpgrade(p) ==
    /\ pc[p] = "cb_upgrade"
    /\ IF DoubleCheck
       THEN /\ state' = CircuitBreakerHalfOpen
            /\ successCount' = 0
            /\ wrote' = [wrote EXCEPT ![p] = TRUE]
            /\ hoSucc' = 0
       ELSE UNCHANGED <<state, successCount, wrote, hoSucc>>
    /\ Goto(p, "cb_reread")
    /\ UNCHANGED <<now, cbConfig, failureCount, lastFailTime, op, err, calls,
                   invoked, admittedAs, streak, hoFailAt>>
    /\ UNCHANGED notBreaker

\* canExecute, under the read lock again: return cb.state == CircuitBreakerHalfOpen
CanExecuteReread(p) ==
    /\ pc[p] = "cb_reread"
    /\ IF state = CircuitBreakerHalfOpen
       THEN /\ Goto(p, "fn")
            /\ admittedAs' = [admittedAs EXCEPT ![p] = state]
            /\ UNCHANGED err
       ELSE /\ Goto(p, Return(p))
            /\ err' = [err EXCEPT ![p] = "circuit_open"]
            /\ UNCHANGED admittedAs
    /\ UNCHANGED <<now, cbVars, op, calls, invoked, wrote, streak, hoFailAt, hoSucc>>
    /\ UNCHANGED notBreaker

\* err := fn(), for a caller of Execute: the wrapped operation succeeds or fails
WrappedOperation(p) ==
    /\ pc[p] = "fn"
    /\ op[p] = "execute"
    /\ \E e \in {"nil", "failed"} : err' = [err EXCEPT ![p] = e]
    /\ invoked' = [invoked EXCEPT ![p] = TRUE]
    /\ Goto(p, IF cbConfig.Enabled THEN "cb_record" ELSE Return(p))
    /\ UNCHANGED <<now, cbVars, op, calls, admittedAs, wrote, streak, hoFailAt, hoSucc>>
    /\ UNCHANGED notBreaker

\* cb.recordResult(err), under the write lock
RecordResultStep(p) ==
    /\ pc[p] = "cb_record"
    /\ LET r == RecordResult(err[p])
           clean == r.state = CircuitBreakerClosed /\ r.failureCount = 0
       IN  /\ state' = r.state
           /\ failureCount' = r.failureCount
           /\ successCount' = r.successCount
           /\ lastFailTime' = r.lastFailTime
           /\ streak' = IF clean THEN 0
                        ELSE IF err[p] # "nil" /\ streak # Broken
                                /\ streak < cbConfig.FailureThreshold
                             THEN streak + 1
                             ELSE Broken
           /\ hoFailAt' = IF err[p] # "nil" /\ state = CircuitBreakerHalfOpen
                          THEN now ELSE hoFailAt
           /\ hoSucc' = IF err[p] = "nil" THEN hoSucc + 1 ELSE hoSucc
    /\ Goto(p, Return(p))
    /\ UNCHANGED <<now, cbConfig, op, err, calls, invoked, admittedAs, wrote>>
    /\ UNCHANGED notBreaker

\* Time passes; a refill tick that is due comes first
Tick ==
    /\ now < MaxTime
    /\ now # nextRefill
    /\ \A p \in Callers : pc[p] = "retry_wait" => ~ctxDone[p] /\ now < wakeAt[p]
    /\ now' = now + 1
    /\ UNCHANGED <<cbVars, pc, op, err, calls, cbHist, ctxDone, rlAll, sendAll, lockVars>>

(***************************************************************************)
(* Rate limiter                                                            *)
(***************************************************************************)
\* rl.config.Period / time.Duration(rl.config.Rate): the ticker's interval
RefillInterval(c) == c.Period \div c.Rate

\* the configurations NewRateLimiter accepts: time.NewTicker panics on an
\* interval that is not positive
RLConfigs ==
    {c \in [Enabled : BOOLEAN,
            Rate : 1..MaxRate,
            Period : 1..MaxPeriod,
            Burst : 1..MaxBurst,
            PerRecipient : BOOLEAN] : RefillInterval(c) >= 1}

\* no refill ticker exists
Never == 0 - 1

\* NewRateLimiter: the bucket after the initial fill
FilledTokensShort(c) == c.Burst - 1
FilledTokens(c) == c.Burst

\* refillTokens: the bucket after one tick (the send does not block when full)
RefilledUncapped(n) == n + 1
Refilled(n) == IF n < rlConfig.Burst THEN n + 1 ELSE n

\* Wait's retryAfter: rl.config.Period / time.Duration(rl.config.Rate)
WaitRetryAfterPeriod(c) == c.Period
WaitRetryAfter(c) == c.Period \div c.Rate

\* tokensNeeded of Wait for an email of n recipients
TokensNeeded(n) == IF rlConfig.PerRecipient THEN n ELSE 1

\* where Wait returns to: its caller is Client.Send, or the call is over
ReturnWait(p) == IF InSend(p) THEN "send_limited" ELSE "idle"

\* A caller calls RateLimiter.Wait(ctx, email) with an email of n recipients:
\* if !rl.config.Enabled { return nil }, else the loop starts
WaitCall(p) ==
    /\ pc[p] = "idle"
    /\ calls < MaxWaits
    /\ calls' = calls + 1
    /\ op' = [op EXCEPT ![p] = "wait"]
    /\ err' = [err EXCEPT ![p] = "nil"]
    /\ retryAfter' = [retryAfter EXCEPT ![p] = 0]
    /\ ctxDone' = [ctxDone EXCEPT ![p] = FALSE]
    /\ \E n \in 1..MaxRecipients :
         /\ IF rlConfig.Enabled
            THEN /\ needed' = [needed EXCEPT ![p] = TokensNeeded(n)]
                 /\ Goto(p, "rl_acquire")
            ELSE /\ needed' = [needed EXCEPT ![p] = 0]
                 /\ Goto(p, "idle")
         /\ got' = [got EXCEPT ![p] = 0]
    /\ UNCHANGED <<now, rlVars, rlHist, notLimiter>>

\* One iteration of Wait's loop: the select on ctx.Done(), rl.tokens, default
WaitAcquire(p) ==
    /\ pc[p] = "rl_acquire"
    /\ \/ /\ ctxDone[p]
          /\ err' = [err EXCEPT ![p] = "cancelled"]
          /\ Goto(p, ReturnWait(p))
          /\ UNCHANGED <<tokens, got, retryAfter, granted>>
       \/ /\ tokens > 0
          /\ tokens' = tokens - 1
          /\ got' = [got EXCEPT ![p] = got[p] + 1]
          /\ IF got[p] + 1 = needed[p]
             THEN Goto(p, ReturnWait(p)) /\ granted' = granted + 1
             ELSE UNCHANGED <<pc, granted>>
          /\ UNCHANGED <<err, retryAfter>>
       \/ /\ ~ctxDone[p]
          /\ tokens = 0
          /\ err' = [err EXCEPT ![p] = "rate_limited"]
          /\ retryAfter' = [retryAfter EXCEPT ![p] = WaitRetryAfter(rlConfig)]
          /\ Goto(p, ReturnWait(p))
          /\ UNCHANGED <<tokens, got, granted>>
    /\ needed' = IF pc'[p] = "idle" THEN [needed EXCEPT ![p] = 0] ELSE needed
    /\ ctxDone' = IF pc'[p] = "idle" THEN [ctxDone EXCEPT ![p] = FALSE] ELSE ctxDone
    /\ UNCHANGED <<now, rlConfig, nextRefill, ticks, preRefill,
                   op, calls, notLimiter>>

\* refillTokens: the ticker fires and the goroutine offers one token
Refill ==
    /\ now = nextRefill
    /\ tokens' = Refilled(tokens)
    /\ nextRefill' = nextRefill + RefillInterval(rlConfig)
    /\ ticks' = ticks + 1
    /\ preRefill' = tokens
    /\ granted' = 0
    /\ UNCHANGED <<now, rlConfig, rlLocal, pc, op, err, calls, ctxDone, notLimiter>>

\* The context of a caller is cancelled; the caller reads ctx.Done() only in
\* the select of Wait and in the select of Retry, so a cancellation takes
\* effect there. A select that blocks takes the first of its channels to
\* become ready: a cancellation after the timer fired is not seen by it.
Cancel(p) ==
    /\ pc[p] \in {"rl_acquire", "retry_wait"}
    /\ pc[p] = "retry_wait" => now < wakeAt[p]
    /\ ~ctxDone[p]
    /\ ctxDone' = [ctxDone EXCEPT ![p] = TRUE]
    /\ UNCHANGED <<now, rlAll, pc, op, err, calls, notLimiter>>

(***************************************************************************)
(* Retry manager                                                           *)
(***************************************************************************)
\* core.IsRetryable: a ProviderError says so itself; sentinel errors
\* (circuit open, client closed, context errors), validation errors and
\* rate-limit errors are not retryable
IsRetryableAny(e) == e # "nil"
IsRetryable(e) == e \in {"retryable", "retryable_hint"}

RECURSIVE Pow(_, _)
\* math.Pow(b, n) for a natural n
Pow(b, n) == IF n = 0 THEN 1 ELSE b * Pow(b, n - 1)

\* the smallest time.Duration (math.MinInt64, scaled down)
MinDuration == 0 - MaxDuration - 1

\* time.Duration(x) of a float64 x >= 0: the value if a Duration can hold it,
\* else what the platform's conversion gives (the smallest Duration on amd64,
\* the largest on arm64)
ToDuration(x) == IF x <= MaxDuration THEN {x} ELSE {MinDuration, MaxDuration}

\* the exponential delay of calculateDelay before the cap
Backoff(a) == retryConfig.InitialDelay * Pow(retryConfig.Multiplier, a - 1)

\* calculateDelay without jitter: the exponential delay, capped at MaxDelay
Capped(d) == IF d > retryConfig.MaxDelay THEN retryConfig.MaxDelay ELSE d
BaseDelays(a) == {Capped(d) : d \in ToDuration(Backoff(a))}

\* the jitter calculateDelay may add to delay d: rand.Int below 10% of d
JittersWide(d) == IF retryConfig.Jitter /\ d > 0 THEN 0..d ELSE {0}
Jitters(d) ==
    IF retryConfig.Jitter /\ d \div 10 > 0 THEN 0..(d \div 10 - 1) ELSE {0}

\* calculateDelay(attempt): the delays it may return
CalculateDelays(a) == UNION {{b + j : j \in Jitters(b)} : b \in BaseDelays(a)}

\* the delays Retry may sleep after failed attempt a, the error's retry-after
\* being hint (0: none), which overrides the computed delay
RetryDelaysNoHint(a, hint) == CalculateDelays(a)
RetryDelays(a, hint) == IF hint > 0 THEN {hint} ELSE CalculateDelays(a)

\* the loop's bound: attempt == r.config.MaxAttempts
IsLastAttemptLate(a) == a = retryConfig.MaxAttempts + 1
IsLastAttempt(a) == a = retryConfig.MaxAttempts

\* Retry's entry: the loop starts with attempt 1; attempt 0 stands for the
\* disabled manager's single return fn()
FirstAttemptAlways == IF retryConfig.MaxAttempts >= 1 THEN 1 ELSE 0
FirstAttempt == IF retryConfig.Enabled THEN 1 ELSE 0

\* the error types that have a RetryAfter() method: RateLimitError, which
\* Wait returns, has the field RetryAfterDuration and no such method
HasRetryAfterMethod(e) == e = "retryable_hint"

\* GetRetryAfter(err), d being the retry-after the error carries
GetRetryAfter(e, d) ==
    IF e = "nil" THEN 0
    ELSE IF HasRetryAfterMethod(e) THEN d
    ELSE 0

\* a SendBatch that built no BatchError and called nothing
NoBatchError == [Total |-> 0, Failed |-> 0, Errors |-> << >>]
NoBatchHist == [native |-> 0, outcome |-> "nil", reported |-> << >>, dispatched |-> << >>]

\* nobody holds the breaker's mutex or waits for it
NoLocal == [can |-> FALSE, tmp |-> 0, at |-> 0, expect |-> << >>]
Unlocked ==
    /\ mutex = [readers |-> {}, writers |-> {}, pending |-> {}]
    /\ local = [p \in Callers |-> NoLocal]

\* no template was rendered
NoRender == [subject |-> "none", html |-> "none", text |-> "none"]
NoRendering ==
    [req |-> [kind |-> "valid", recipients |-> 1, Subject |-> ""], outcome |-> NoRender,
     Subject |-> "", HTMLBody |-> "", TextBody |-> ""]

(***************************************************************************)
(* Client.Send                                                             *)
(***************************************************************************)
\* what a provider's Send returns
ProviderOutcomes == {"nil", "retryable", "retryable_hint", "permanent"}

\* the emails a caller may pass: valid, failing Validate, or without any To
Emails == [kind : {"valid", "invalid", "no_to"}, recipients : 1..MaxRecipients]

\* Send before rate limiting: the closed check, the span attributes (which
\* index email.To[0]) and email.Validate()
SendPrologueValidateFirst(e) ==
    IF e.kind = "no_to" THEN "panic"
    ELSE IF e.kind = "invalid" THEN "validation"
    ELSE IF closed THEN "client_closed"
    ELSE "nil"
SendPrologue(e) ==
    IF closed THEN "client_closed"
    ELSE IF e.kind = "no_to" THEN "panic"
    ELSE IF e.kind = "invalid" THEN "validation"
    ELSE "nil"

\* err = c.circuitBreaker.Execute(sendFn) if a breaker is set, else err = sendFn()
DispatchLabel == IF client.breaker THEN (IF cbConfig.Enabled THEN "cb_check" ELSE "fn") ELSE "fn"
DispatchVia == IF client.breaker THEN "cb" ELSE "direct"

\* where the unit of work returns to
AfterFn(p) ==
    CASE via[p] = "cb" -> IF cbConfig.Enabled THEN "cb_record" ELSE "send_executed"
      [] via[p] = "direct" -> "send_executed"
      [] OTHER -> "retry_attempted"

\* sendFn tries the fallback provider: the primary failed, a fallback is set
\* and the failure is retryable
UseFallbackNotRetryable(e) == e # "nil" /\ client.fallback /\ ~IsRetryable(e)
UseFallbackAlways(e) == e # "nil" /\ client.fallback
UseFallback(e) == e # "nil" /\ client.fallback /\ IsRetryable(e)

\* sendErr after the fallback was called: result and sendErr are both
\* overwritten by what the fallback returned
FnResultOfPrimary(primaryErr, fallbackErr) == primaryErr
FnResult(primaryErr, fallbackErr) == fallbackErr

\* what Send hands to Retry: sendFn, not the whole pipeline
RetryEntryThroughLimiter == "rl_acquire"
RetryEntry == "fn"

\* the SendResult a provider returns with its error value
ProviderResult(name, o) == IF o = "nil" THEN name ELSE "none"

\* where Send returns to: the loop of sendBatchIndividually, or the caller
SendReturnLabel(o) == IF o = "batch" THEN "batch_sent" ELSE "idle"

\* Send (or a Retry called on its own) returns: its locals and those of the
\* calls it made are gone; the context of a caller of Retry is the caller's
SendReturn(p) ==
    /\ Goto(p, SendReturnLabel(op[p]))
    /\ via' = [via EXCEPT ![p] = "none"]
    /\ attempt' = [attempt EXCEPT ![p] = 0]
    /\ wakeAt' = [wakeAt EXCEPT ![p] = 0]
    /\ needed' = [needed EXCEPT ![p] = 0]
    /\ got' = [got EXCEPT ![p] = 0]
    /\ ctxDone' = IF InSend(p) THEN [ctxDone EXCEPT ![p] = FALSE] ELSE ctxDone

\* Send(ctx, e) from its entry to its first call of the rate limiter, the
\* breaker or the provider, called by an operation o
SendEnter(p, e, o) ==
    /\ ctxDone' = [ctxDone EXCEPT ![p] = FALSE]
    /\ retryAfter' = [retryAfter EXCEPT ![p] = 0]
    /\ got' = [got EXCEPT ![p] = 0]
    /\ attempt' = [attempt EXCEPT ![p] = 0]
    /\ wakeAt' = [wakeAt EXCEPT ![p] = 0]
    /\ result' = [result EXCEPT ![p] = "none"]
    /\ fnCount' = [fnCount EXCEPT ![p] = 0]
    /\ unguarded' = [unguarded EXCEPT ![p] = FALSE]
    /\ invoked' = [invoked EXCEPT ![p] = FALSE]
    /\ admittedAs' = [admittedAs EXCEPT ![p] = "none"]
    /\ wrote' = [wrote EXCEPT ![p] = FALSE]
    /\ LET r == SendPrologue(e)
       IN  /\ err' = [err EXCEPT ![p] = r]
           /\ IF r # "nil"
              THEN /\ Goto(p, IF r = "panic" THEN "crashed" ELSE SendReturnLabel(o))
                   /\ needed' = [needed EXCEPT ![p] = 0]
                   /\ via' = [via EXCEPT ![p] = "none"]
              ELSE IF client.limiter /\ rlConfig.Enabled
              THEN /\ Goto(p, "rl_acquire")
                   /\ needed' = [needed EXCEPT ![p] = TokensNeeded(e.recipients)]
                   /\ via' = [via EXCEPT ![p] = "none"]
              ELSE /\ Goto(p, DispatchLabel)
                   /\ needed' = [needed EXCEPT ![p] = 0]
                   /\ via' = [via EXCEPT ![p] = DispatchVia]
    /\ UNCHANGED <<now, cbVars, streak, hoFailAt, hoSucc, rlVars, rlHist,
                   lockVars, client, retryConfig, closed>>

\* the variables of SendBatch of a caller that is not in it
NoBatch(p) ==
    /\ emails' = [emails EXCEPT ![p] = << >>]
    /\ index' = [index EXCEPT ![p] = 0]
    /\ batchErr' = [batchErr EXCEPT ![p] = NoBatchError]
    /\ batchHist' = [batchHist EXCEPT ![p] = NoBatchHist]

\* A caller calls Client.Send(ctx, email)
SendCall(p) ==
    /\ pc[p] = "idle"
    /\ calls < MaxSends
    /\ calls' = calls + 1
    /\ op' = [op EXCEPT ![p] = "send"]
    /\ NoBatch(p)
    /\ rendering' = [rendering EXCEPT ![p] = NoRendering]
    /\ \E e \in Emails : SendEnter(p, e, "send")

\* Send returns what c.rateLimiter.Wait returned if that is an error
LimiterDeniedCancelled(e) == e = "cancelled"
LimiterDenied(e) == e # "nil"

\* Send after c.rateLimiter.Wait returned
SendLimited(p) ==
    /\ pc[p] = "send_limited"
    /\ IF LimiterDenied(err[p])
       THEN SendReturn(p)
       ELSE /\ Goto(p, DispatchLabel)
            /\ via' = [via EXCEPT ![p] = DispatchVia]
            /\ UNCHANGED <<attempt, wakeAt, needed, got, ctxDone>>
    /\ UNCHANGED <<now, cbVars, cbHist, op, err, calls, rlVars, rlHist, retryAfter,
                   lockVars, client, retryConfig, closed, sendHist, result, batchVars>>

\* sendFn: the call of the primary provider
SendPrimary(p) ==
    /\ pc[p] = "fn"
    /\ InSend(p)
    /\ fnCount' = [fnCount EXCEPT ![p] = fnCount[p] + 1]
    /\ unguarded' = [unguarded EXCEPT ![p] = unguarded[p] \/ (client.breaker /\ via[p] # "cb")]
    /\ invoked' = [invoked EXCEPT ![p] = invoked[p] \/ via[p] = "cb"]
    /\ \E o \in ProviderOutcomes, h \in 1..MaxHint :
         /\ err' = [err EXCEPT ![p] = o]
         /\ retryAfter' = [retryAfter EXCEPT ![p] = IF o = "retryable_hint" THEN h ELSE 0]
         /\ result' = [result EXCEPT ![p] = ProviderResult("primary", o)]
         /\ Goto(p, IF UseFallback(o) THEN "fn_fallback" ELSE AfterFn(p))
    /\ UNCHANGED <<now, cbVars, admittedAs, wrote, streak, hoFailAt, hoSucc,
                   op, calls, ctxDone, rlVars, rlHist, needed, got, sendVars, lockVars,
                   batchVars>>

\* sendFn: the call of the fallback provider
SendFallback(p) ==
    /\ pc[p] = "fn_fallback"
    /\ \E o \in ProviderOutcomes, h \in 1..MaxHint :
         /\ err' = [err EXCEPT ![p] = FnResult(err[p], o)]
         /\ retryAfter' = [retryAfter EXCEPT ![p] = IF o = "retryable_hint" THEN h ELSE 0]
         /\ result' = [result EXCEPT ![p] = ProviderResult("fallback", o)]
    /\ Goto(p, AfterFn(p))
    /\ UNCHANGED <<now, cbVars, cbHist, op, calls, ctxDone, rlVars, rlHist,
                   needed, got, sendVars, lockVars, sendHist, batchVars>>

\* Send after the first invocation of the unit of work: enter Retry or return
SendExecuted(p) ==
    /\ pc[p] = "send_executed"
    /\ IF err[p] # "nil" /\ client.retry /\ IsRetryable(err[p])
       THEN /\ Goto(p, RetryEntry)
            /\ via' = [via EXCEPT ![p] = "retry"]
            /\ attempt' = [attempt EXCEPT ![p] = FirstAttempt]
            /\ UNCHANGED <<wakeAt, needed, got, ctxDone>>
       ELSE SendReturn(p)
    /\ UNCHANGED <<now, cbVars, cbHist, op, err, calls, rlVars, rlHist, retryAfter,
                   lockVars, client, retryConfig, closed, sendHist, result, batchVars>>

\* Retry after fn returned: return, or compute the delay and start the timer
RetryAttempted(p) ==
    /\ pc[p] = "retry_attempted"
    /\ IF \/ attempt[p] = 0
          \/ err[p] = "nil"
          \/ ~IsRetryable(err[p])
          \/ IsLastAttempt(attempt[p])
       THEN SendReturn(p)
       ELSE /\ Goto(p, "retry_wait")
            /\ \E d \in RetryDelays(attempt[p], GetRetryAfter(err[p], retryAfter[p])) :
                 wakeAt' = [wakeAt EXCEPT ![p] = now + d]
            /\ UNCHANGED <<via, attempt, needed, got, ctxDone>>
    /\ UNCHANGED <<now, cbVars, cbHist, op, err, calls, rlVars, rlHist, retryAfter,
                   lockVars, client, retryConfig, closed, sendHist, result, batchVars>>

\* Retry's select: the context is done, or the timer fired
RetryWait(p) ==
    /\ pc[p] = "retry_wait"
    /\ \/ /\ ctxDone[p]
          /\ err' = [err EXCEPT ![p] = "cancelled"]
          /\ retryAfter' = [retryAfter EXCEPT ![p] = 0]
          /\ SendReturn(p)
       \/ /\ now >= wakeAt[p]
          /\ attempt' = [attempt EXCEPT ![p] = attempt[p] + 1]
          /\ Goto(p, "fn")
          /\ UNCHANGED <<err, retryAfter, via, wakeAt, needed, got, ctxDone>>
    /\ UNCHANGED <<now, cbVars, cbHist, op, calls, rlVars, rlHist,
                   lockVars, client, retryConfig, closed, sendHist, result, batchVars>>

\* A caller calls RetryManager.Retry(ctx, fn) on its own, with a context that
\* may be cancelled already
RetryCall(p) ==
    /\ pc[p] = "idle"
    /\ calls < MaxCalls
    /\ calls' = calls + 1
    /\ op' = [op EXCEPT ![p] = "retry"]
    /\ err' = [err EXCEPT ![p] = "nil"]
    /\ retryAfter' = [retryAfter EXCEPT ![p] = 0]
    /\ \E c \in BOOLEAN : ctxDone' = [ctxDone EXCEPT ![p] = c]
    /\ via' = [via EXCEPT ![p] = "retry"]
    /\ attempt' = [attempt EXCEPT ![p] = FirstAttempt]
    /\ wakeAt' = [wakeAt EXCEPT ![p] = 0]
    /\ fnCount' = [fnCount EXCEPT ![p] = 0]
    /\ Goto(p, "fn")
    /\ UNCHANGED <<now, cbVars, cbHist, rlVars, rlHist, needed, got,
                   lockVars, client, retryConfig, closed, unguarded, result, batchVars>>

\* fn(): the unit of work given to Retry runs and returns nil or an error
RetryFn(p) ==
    /\ pc[p] = "fn"
    /\ op[p] = "retry"
    /\ fnCount' = [fnCount EXCEPT ![p] = fnCount[p] + 1]
    /\ \E o \in ProviderOutcomes, h \in 1..MaxHint :
         /\ err' = [err EXCEPT ![p] = o]
         /\ retryAfter' = [retryAfter EXCEPT ![p] = IF o = "retryable_hint" THEN h ELSE 0]
    /\ Goto(p, "retry_attempted")
    /\ UNCHANGED <<now, cbVars, cbHist, op, calls, ctxDone, rlVars, rlHist,
                   needed, got, sendVars, lockVars, unguarded, result, batchVars>>

\* Time passes beyond the clock's bound while a timer of Retry is running
TimerElapse ==
    /\ now >= MaxTime
    /\ \E p \in Callers : pc[p] = "retry_wait"
    /\ \A p \in Callers : pc[p] = "retry_wait" => ~ctxDone[p] /\ now < wakeAt[p]
    /\ now' = now + 1
    /\ UNCHANGED <<cbVars, pc, op, err, calls, cbHist, ctxDone, rlAll, sendAll, lockVars>>

\* A caller calls r.calculateDelay(attempt) for an attempt of the loop; the
\* result is kept as the instant now + delay
CalculateDelay(p) ==
    /\ pc[p] = "idle"
    /\ op' = [op EXCEPT ![p] = "delay"]
    /\ \E a \in 1..retryConfig.MaxAttempts :
         /\ attempt' = [attempt EXCEPT ![p] = a]
         /\ \E d \in CalculateDelays(a) : wakeAt' = [wakeAt EXCEPT ![p] = now + d]
    /\ UNCHANGED <<now, cbVars, cbHist, pc, err, calls, ctxDone, rlAll,
                   lockVars, client, retryConfig, closed, via, sendHist, result, batchVars>>

\* Client.Close
Close ==
    /\ ~closed
    /\ closed' = TRUE
    /\ UNCHANGED <<now, cbVars, cbHist, pc, op, err, calls, ctxDone, rlAll,
                   lockVars, client, retryConfig, via, attempt, wakeAt, sendHist, result, batchVars>>

(***************************************************************************)
(* Client.SendBatch and Client.SendTemplate                                *)
(***************************************************************************)
\* the emails of a batch: valid or failing Validate (as one without any To
\* does), each with one recipient
BatchEmails == {e \in Emails : e.recipients = 1 /\ e.kind \in {"valid", "invalid"}}

\* the batches a caller may pass
Batches == UNION {[1..n -> BatchEmails] : n \in 0..MaxBatch}

\* the errors with which a provider's SendBatch fails outright
BatchOutcomes == {"retryable", "permanent"}

\* BatchResult.Failed as a provider reports it for the batch b: each failed
\* email once, in any order
BatchFailures(b) ==
    {[Index |-> i, Email |-> b[i + 1], Error |-> e] :
        i \in 0..(Len(b) - 1), e \in {"retryable", "permanent"}}
FailureLists(b) ==
    {f \in UNION {[1..k -> BatchFailures(b)] : k \in 0..MaxFailed} :
        \A i, j \in 1..Len(f) : i # j => f[i].Index # f[j].Index}

\* the index SendBatch's validation loop returns at: that of the first email
\* whose Validate fails (-1: every email is valid)
LastInvalid(b) ==
    IF \E i \in 1..Len(b) : b[i].kind # "valid"
    THEN (CHOOSE i \in 1..Len(b) :
            /\ b[i].kind # "valid"
            /\ \A j \in (i + 1)..Len(b) : b[j].kind = "valid") - 1
    ELSE 0 - 1
FirstInvalid(b) ==
    IF \E i \in 1..Len(b) : b[i].kind # "valid"
    THEN (CHOOSE i \in 1..Len(b) :
            /\ b[i].kind # "valid"
            /\ \A j \in 1..(i - 1) : b[j].kind = "valid") - 1
    ELSE 0 - 1

\* SendBatch before its provider call: the closed check, the empty batch,
\* the validation of every email
BatchPrologue(b) ==
    IF closed THEN "client_closed"
    ELSE IF Len(b) = 0 THEN "empty"
    ELSE IF FirstInvalid(b) >= 0 THEN "validation"
    ELSE "nil"

\* what SendBatch does with a validated batch: it calls the provider's
\* SendBatch itself, outside Wait, Execute and Retry
BatchDispatchThroughLimiter == IF client.limiter THEN "rl_acquire" ELSE "batch_native"
BatchDispatch == "batch_native"

\* the BatchItemErrors SendBatch makes of the failures a provider reported
ConvertFailuresByPosition(f) ==
    [k \in 1..Len(f) |-> [Index |-> k - 1, Error |-> f[k].Error]]
ConvertFailures(f) ==
    [k \in 1..Len(f) |-> [Index |-> f[k].Index, Error |-> f[k].Error]]

\* sendBatchIndividually counts a failed Send of the email at index i
AppendItemErrorByPosition(be, i, e) ==
    [be EXCEPT !.Failed = @ + 1,
               !.Errors = Append(@, [Index |-> be.Failed, Error |-> e])]
AppendItemError(be, i, e) ==
    [be EXCEPT !.Failed = @ + 1,
               !.Errors = Append(@, [Index |-> i, Error |-> e])]

\* a call of SendBatch or SendTemplate starts: nothing is left of the
\* caller's previous call
FreshCall(p) ==
    /\ retryAfter' = [retryAfter EXCEPT ![p] = 0]
    /\ result' = [result EXCEPT ![p] = "none"]
    /\ fnCount' = [fnCount EXCEPT ![p] = 0]
    /\ unguarded' = [unguarded EXCEPT ![p] = FALSE]
    /\ invoked' = [invoked EXCEPT ![p] = FALSE]
    /\ admittedAs' = [admittedAs EXCEPT ![p] = "none"]
    /\ wrote' = [wrote EXCEPT ![p] = FALSE]

\* A caller calls Client.SendBatch(ctx, emails)
BatchCall(p) ==
    /\ pc[p] = "idle"
    /\ calls < MaxClientCalls
    /\ calls' = calls + 1
    /\ op' = [op EXCEPT ![p] = "batch"]
    /\ FreshCall(p)
    /\ batchErr' = [batchErr EXCEPT ![p] = NoBatchError]
    /\ batchHist' = [batchHist EXCEPT ![p] = NoBatchHist]
    /\ rendering' = [rendering EXCEPT ![p] = NoRendering]
    /\ \E b \in Batches :
         LET r == BatchPrologue(b)
         IN  /\ emails' = [emails EXCEPT ![p] = b]
             /\ index' = [index EXCEPT ![p] = IF r = "validation" THEN FirstInvalid(b) ELSE 0]
             /\ err' = [err EXCEPT ![p] = IF r = "empty" THEN "nil" ELSE r]
             /\ Goto(p, IF r = "nil" THEN BatchDispatch ELSE "idle")
    /\ UNCHANGED <<now, cbVars, streak, hoFailAt, hoSucc, ctxDone, rlVars, rlHist,
                   needed, got, sendVars, lockVars>>

\* SendBatch calls the primary provider's SendBatch and, unless it goes on
\* to sendBatchIndividually, returns
BatchNative(p) ==
    /\ pc[p] = "batch_native"
    /\ \/ \E o \in BatchOutcomes :
            /\ batchHist' = [batchHist EXCEPT ![p].native = @ + 1, ![p].outcome = o]
            /\ IF client.fallback
               THEN /\ Goto(p, "batch_next")
                    /\ UNCHANGED <<err, batchErr>>
               ELSE /\ Goto(p, "idle")
                    /\ err' = [err EXCEPT ![p] = o]
                    /\ UNCHANGED batchErr
       \/ \E f \in FailureLists(emails[p]) :
            /\ batchHist' = [batchHist EXCEPT ![p].native = @ + 1, ![p].reported = f]
            /\ Goto(p, "idle")
            /\ IF Len(f) > 0
               THEN /\ err' = [err EXCEPT ![p] = "batch_error"]
                    /\ batchErr' = [batchErr EXCEPT ![p] =
                                      [Total |-> Len(emails[p]), Failed |-> Len(f),
                                       Errors |-> ConvertFailures(f)]]
               ELSE UNCHANGED <<err, batchErr>>
    /\ UNCHANGED <<now, cbVars, cbHist, op, calls, ctxDone, rlAll, sendVars, lockVars, sendHist,
                   result, emails, index, rendering>>

\* sendBatchIndividually: the next email goes through Send, or the loop is
\* over and the call returns
BatchNext(p) ==
    /\ pc[p] = "batch_next"
    /\ IF index[p] < Len(emails[p])
       THEN /\ batchHist' = [batchHist EXCEPT ![p].dispatched = Append(@, index[p])]
            /\ SendEnter(p, emails[p][index[p] + 1], "batch")
            /\ UNCHANGED batchErr
       ELSE /\ Goto(p, "idle")
            /\ IF batchErr[p].Failed > 0
               THEN /\ err' = [err EXCEPT ![p] = "batch_error"]
                    /\ batchErr' = [batchErr EXCEPT ![p].Total = Len(emails[p])]
               ELSE /\ err' = [err EXCEPT ![p] = "nil"]
                    /\ UNCHANGED batchErr
            /\ UNCHANGED <<now, cbVars, cbHist, ctxDone, rlAll, sendVars, lockVars, sendHist,
                           result, batchHist>>
    /\ UNCHANGED <<op, calls, emails, index, rendering>>

\* sendBatchIndividually after c.Send returned: a failure is counted and
\* kept with the index of the email
BatchSent(p) ==
    /\ pc[p] = "batch_sent"
    /\ batchErr' = [batchErr EXCEPT ![p] =
                      IF err[p] # "nil" THEN AppendItemError(@, index[p], err[p]) ELSE @]
    /\ index' = [index EXCEPT ![p] = index[p] + 1]
    /\ Goto(p, "batch_next")
    /\ UNCHANGED <<now, cbVars, cbHist, op, err, calls, ctxDone, rlAll, sendVars, lockVars,
                   sendHist, result, emails, batchHist, rendering>>

\* what TemplateEngine.Render returns for one template: the rendered text,
\* ErrTemplateNotFound, or a template error of a failed Execute
RenderOutcomes == {"ok", "not_found", "error"}

\* the string Render returns with the outcome o
Render(o) == IF o = "ok" THEN "rendered" ELSE ""

\* err != nil && !errors.Is(err, ErrTemplateNotFound)
RenderFailed(o) == o = "error"

\* the requests a caller may pass: the addressing valid, failing Validate or
\* without any To, the subject given or empty
TemplateRequests ==
    [kind : {"valid", "invalid", "no_to"}, recipients : {1}, Subject : {"", "given"}]

\* SendTemplate renders the subject template: renderedSubject == ""
RendersSubjectAlways(req) == req.Subject \in {"", "given"}
RendersSubject(req) == req.Subject = ""

\* the templates SendTemplate renders, in its order, and where it is when it
\* renders them
RenderStep(f) ==
    CASE f = "subject" -> "render_subject"
      [] f = "html" -> "render_html"
      [] f = "text" -> "render_text"
AfterRender(f) ==
    CASE f = "subject" -> "render_html"
      [] f = "html" -> "render_text"
      [] f = "text" -> "template_rendered"

\* the Email SendTemplate builds: the addressing of the request, the
\* rendered fields; Validate wants a subject and one of the bodies
BuiltEmail(r) ==
    [kind |-> IF r.req.kind # "valid" THEN r.req.kind
              ELSE IF r.Subject = "" \/ (r.HTMLBody = "" /\ r.TextBody = "")
              THEN "invalid"
              ELSE "valid",
     recipients |-> r.req.recipients]

\* SendTemplate before it renders: the closed check, the template engine
TemplatePrologue ==
    IF closed THEN "client_closed"
    ELSE IF ~client.templates THEN "template_disabled"
    ELSE "nil"

\* A caller calls Client.SendTemplate(ctx, req)
TemplateCall(p) ==
    /\ pc[p] = "idle"
    /\ calls < MaxClientCalls
    /\ calls' = calls + 1
    /\ op' = [op EXCEPT ![p] = "template"]
    /\ FreshCall(p)
    /\ NoBatch(p)
    /\ err' = [err EXCEPT ![p] = TemplatePrologue]
    /\ \E req \in TemplateRequests :
         /\ rendering' = [rendering EXCEPT ![p] =
                            [NoRendering EXCEPT !.req = req, !.Subject = req.Subject]]
         /\ Goto(p, IF TemplatePrologue # "nil" THEN "idle"
                    ELSE IF RendersSubject(req) THEN RenderStep("subject")
                    ELSE RenderStep("html"))
    /\ UNCHANGED <<now, cbVars, streak, hoFailAt, hoSucc, ctxDone, rlVars, rlHist,
                   needed, got, sendVars, lockVars>>

\* SendTemplate renders one of its templates: a failure other than
\* ErrTemplateNotFound makes it return a template error
TemplateRender(p) ==
    \E f \in {"subject", "html", "text"} :
        /\ pc[p] = RenderStep(f)
        /\ \E o \in RenderOutcomes :
             /\ rendering' = [rendering EXCEPT
                                ![p].outcome[f] = o,
                                ![p].Subject = IF f = "subject" THEN Render(o) ELSE @,
                                ![p].HTMLBody = IF f = "html" THEN Render(o) ELSE @,
                                ![p].TextBody = IF f = "text" THEN Render(o) ELSE @]
             /\ IF RenderFailed(o)
                THEN /\ err' = [err EXCEPT ![p] = "template_error"]
                     /\ Goto(p, "idle")
                ELSE /\ Goto(p, AfterRender(f))
                     /\ UNCHANGED err
        /\ UNCHANGED <<now, cbVars, cbHist, op, calls, ctxDone, rlAll, sendVars, lockVars, sendHist,
                       result, emails, index, batchErr, batchHist>>

\* SendTemplate calls c.Send with the email it built of the request
TemplateSend(p) ==
    /\ pc[p] = "template_rendered"
    /\ SendEnter(p, BuiltEmail(rendering[p]), "template")
    /\ UNCHANGED <<op, calls, batchVars>>

\* the variables of Send of callers that have not called it
NoSendCall ==
    /\ via = [p \in Callers |-> "none"]
    /\ attempt = [p \in Callers |-> 0]
    /\ wakeAt = [p \in Callers |-> 0]
    /\ fnCount = [p \in Callers |-> 0]
    /\ unguarded = [p \in Callers |-> FALSE]
    /\ result = [p \in Callers |-> "none"]
    /\ emails = [p \in Callers |-> << >>]
    /\ index = [p \in Callers |-> 0]
    /\ batchErr = [p \in Callers |-> NoBatchError]
    /\ batchHist = [p \in Callers |-> NoBatchHist]
    /\ rendering = [p \in Callers |-> NoRendering]

\* the variables of Wait of callers that have not called it
NoLimiterCall ==
    /\ ctxDone = [p \in Callers |-> FALSE]
    /\ needed = [p \in Callers |-> 0]
    /\ got = [p \in Callers |-> 0]
    /\ retryAfter = [p \in Callers |-> 0]
    /\ ticks = 0
    /\ preRefill = 0
    /\ granted = 0

\* no rate limiter was constructed
NoLimiter ==
    /\ rlConfig = [Enabled |-> FALSE, Rate |-> 1, Period |-> 1, Burst |-> 1,
                   PerRecipient |-> FALSE]
    /\ tokens = 0
    /\ nextRefill = Never
    /\ NoLimiterCall

\* no client was constructed
NoClient ==
    /\ client = [breaker |-> FALSE, retry |-> FALSE, limiter |-> FALSE,
                 fallback |-> FALSE]
    /\ retryConfig = [Enabled |-> FALSE, MaxAttempts |-> 1, InitialDelay |-> 1,
                      MaxDelay |-> 1, Multiplier |-> 2, Jitter |-> FALSE]
    /\ closed = FALSE
    /\ NoSendCall
    /\ Unlocked

\* no circuit breaker was constructed
NoBreaker ==
    /\ cbConfig = [Enabled |-> FALSE, FailureThreshold |-> 1, SuccessThreshold |-> 1,
                   Timeout |-> 0, ResetTimeout |-> 0]
    /\ state = CircuitBreakerClosed
    /\ failureCount = 0
    /\ successCount = 0
    /\ lastFailTime = ZeroTime
    /\ invoked = [p \in Callers |-> FALSE]
    /\ admittedAs = [p \in Callers |-> "none"]
    /\ wrote = [p \in Callers |-> FALSE]
    /\ streak = 0
    /\ hoFailAt = ZeroTime
    /\ hoSucc = 0

CBInit ==
    /\ now = 0
    /\ cbConfig \in CBConfigs
    /\ state = CircuitBreakerClosed
    /\ failureCount = 0
    /\ successCount = 0
    /\ lastFailTime = ZeroTime
    /\ pc = [p \in Callers |-> "idle"]
    /\ op = [p \in Callers |-> "none"]
    /\ err = [p \in Callers |-> "nil"]
    /\ calls = 0
    /\ invoked = [p \in Callers |-> FALSE]
    /\ admittedAs = [p \in Callers |-> "none"]
    /\ wrote = [p \in Callers |-> FALSE]
    /\ streak = 0
    /\ hoFailAt = ZeroTime
    /\ hoSucc = 0
    /\ NoLimiter
    /\ NoClient

CBNext ==
    \/ Tick
    \/ \E p \in Callers :
        \/ ExecuteCall(p)
        \/ CanExecuteCheck(p)
        \/ CanExecuteUpgrade(p)
        \/ CanExecuteReread(p)
        \/ WrappedOperation(p)
        \/ RecordResultStep(p)

SpecCB == CBInit /\ [][CBNext]_vars

(***************************************************************************)
(* Specification of the rate limiter used by concurrent callers of Wait    *)
(***************************************************************************)
RLInit ==
    /\ now = 0
    /\ rlConfig \in RLConfigs
    /\ tokens = FilledTokens(rlConfig)
    /\ nextRefill = RefillInterval(rlConfig)
    /\ NoLimiterCall
    /\ NoBreaker
    /\ NoClient
    /\ pc = [p \in Callers |-> "idle"]
    /\ op = [p \in Callers |-> "none"]
    /\ err = [p \in Callers |-> "nil"]
    /\ calls = 0

RLNext ==
    \/ Tick
    \/ Refill
    \/ \E p \in Callers :
        \/ WaitCall(p)
        \/ WaitAcquire(p)
        \/ Cancel(p)

SpecRL == RLInit /\ [][RLNext]_vars

(***************************************************************************)
(* Specification of a client whose Send is called                          *)
(***************************************************************************)
\* the callers of Send
Senders == {"c1"}

\* New: the configurations of the parts of the client
SendCBConfigs ==
    {c \in CBConfigs : c.Enabled /\ c.FailureThreshold = 1 /\ c.SuccessThreshold = 1
                       /\ c.Timeout = 1 /\ c.ResetTimeout = MaxTimeout}
SendRLConfigs ==
    {c \in RLConfigs : c.Enabled /\ c.Rate = 1 /\ c.Period = 1 /\ c.Burst = 2
                       /\ c.PerRecipient}
SendRetryConfigs ==
    [Enabled : {TRUE}, MaxAttempts : 1..MaxRetryAttempts, InitialDelay : {1},
     MaxDelay : {1}, Multiplier : {2}, Jitter : {FALSE}]

\* New: the parts of a client that were chosen to be set
NewClient ==
    /\ now = 0
    /\ closed = FALSE
    /\ NoSendCall
    /\ Unlocked
    /\ IF client.retry
       THEN retryConfig \in SendRetryConfigs
       ELSE retryConfig = [Enabled |-> FALSE, MaxAttempts |-> 1, InitialDelay |-> 1,
                           MaxDelay |-> 1, Multiplier |-> 2, Jitter |-> FALSE]
    /\ IF client.breaker
       THEN /\ cbConfig \in SendCBConfigs
            /\ state = CircuitBreakerClosed
            /\ failureCount = 0
            /\ successCount = 0
            /\ lastFailTime = ZeroTime
            /\ invoked = [p \in Callers |-> FALSE]
            /\ admittedAs = [p \in Callers |-> "none"]
            /\ wrote = [p \in Callers |-> FALSE]
            /\ streak = 0
            /\ hoFailAt = ZeroTime
            /\ hoSucc = 0
       ELSE NoBreaker
    /\ IF client.limiter
       THEN /\ rlConfig \in SendRLConfigs
            /\ tokens = FilledTokens(rlConfig)
            /\ nextRefill = RefillInterval(rlConfig)
            /\ NoLimiterCall
       ELSE NoLimiter
    /\ pc = [p \in Callers |-> "idle"]
    /\ op = [p \in Callers |-> "none"]
    /\ err = [p \in Callers |-> "nil"]
    /\ calls = 0

SendInit ==
    /\ client \in [breaker : BOOLEAN, retry : BOOLEAN, limiter : BOOLEAN,
                   fallback : BOOLEAN]
    /\ NewClient

SendNext ==
    \/ Tick
    \/ Refill
    \/ Close
    \/ \E p \in Senders :
        \/ SendCall(p)
        \/ WaitAcquire(p)
        \/ SendLimited(p)
        \/ CanExecuteCheck(p)
        \/ CanExecuteUpgrade(p)
        \/ CanExecuteReread(p)
        \/ SendPrimary(p)
        \/ SendFallback(p)
        \/ RecordResultStep(p)
        \/ SendExecuted(p)
        \/ RetryAttempted(p)
        \/ RetryWait(p)
        \/ Cancel(p)

SpecSend == SendInit /\ [][SendNext]_vars

(***************************************************************************)
(* Specification of a client whose Send, SendBatch and SendTemplate are    *)
(* called                                                                  *)
(***************************************************************************)
ClientInit ==
    /\ client \in [breaker : BOOLEAN, retry : {FALSE}, limiter : BOOLEAN,
                   fallback : BOOLEAN, templates : BOOLEAN]
    /\ NewClient

\* a call of Send that is one of the calls of this specification
ClientSendCall(p) == calls < MaxClientCalls /\ SendCall(p)

ClientNext ==
    \/ Close
    \/ \E p \in Senders :
        \/ ClientSendCall(p)
        \/ BatchCall(p)
        \/ BatchNative(p)
        \/ BatchNext(p)
        \/ BatchSent(p)
        \/ TemplateCall(p)
        \/ TemplateRender(p)
        \/ TemplateSend(p)
        \/ WaitAcquire(p)
        \/ SendLimited(p)
        \/ CanExecuteCheck(p)
        \/ SendPrimary(p)
        \/ SendFallback(p)
        \/ RecordResultStep(p)
        \/ SendExecuted(p)
        \/ Cancel(p)

SpecClient == ClientInit /\ [][ClientNext]_vars

(***************************************************************************)
(* Specification of a retry manager whose Retry is called                  *)
(***************************************************************************)
\* NewRetryManager: the configurations of the manager
RetryConfigs ==
    [Enabled : BOOLEAN, MaxAttempts : 1..MaxRetryAttempts, InitialDelay : {0, 1, 2},
     MaxDelay : {1, 2}, Multiplier : {2}, Jitter : {FALSE}]

RetryInit ==
    /\ now = 0
    /\ retryConfig \in RetryConfigs
    /\ client = [breaker |-> FALSE, retry |-> TRUE, limiter |-> FALSE,
                 fallback |-> FALSE]
    /\ closed = FALSE
    /\ NoSendCall
    /\ Unlocked
    /\ NoLimiter
    /\ NoBreaker
    /\ pc = [p \in Callers |-> "idle"]
    /\ op = [p \in Callers |-> "none"]
    /\ err = [p \in Callers |-> "nil"]
    /\ calls = 0

RetryNext ==
    \/ Tick
    \/ TimerElapse
    \/ \E p \in Senders :
        \/ RetryCall(p)
        \/ RetryFn(p)
        \/ RetryAttempted(p)
        \/ RetryWait(p)
        \/ Cancel(p)

SpecRetry == RetryInit /\ [][RetryNext]_vars

\* the unit of work returns, a runnable caller runs, and time passes
RetryFairness ==
    /\ WF_vars(Tick)
    /\ WF_vars(TimerElapse)
    /\ \A p \in Senders :
         WF_vars(RetryFn(p)) /\ WF_vars(RetryAttempted(p)) /\ WF_vars(RetryWait(p))

SpecRetryLive == SpecRetry /\ RetryFairness

(***************************************************************************)
(* Specification of calculateDelay called on its own                       *)
(***************************************************************************)
\* the configurations calculateDelay is called with
BackoffConfigs ==
    [Enabled : {TRUE}, MaxAttempts : 1..MaxBackoffAttempts, InitialDelay : {0, 1, 10, 25},
     MaxDelay : {0, 20, 40}, Multiplier : {2, 3}, Jitter : BOOLEAN]

BackoffInit ==
    /\ now = 0
    /\ retryConfig \in BackoffConfigs
    /\ client = [breaker |-> FALSE, retry |-> TRUE, limiter |-> FALSE,
                 fallback |-> FALSE]
    /\ closed = FALSE
    /\ NoSendCall
    /\ Unlocked
    /\ NoLimiter
    /\ NoBreaker
    /\ pc = [p \in Callers |-> "idle"]
    /\ op = [p \in Callers |-> "none"]
    /\ err = [p \in Callers |-> "nil"]
    /\ calls = 0

BackoffNext == \E p \in Senders : CalculateDelay(p)

SpecBackoff == BackoffInit /\ [][BackoffNext]_vars

(***************************************************************************)
(* Specification of the circuit breaker with its mutex: every Lock,        *)
(* Unlock, RLock and RUnlock of Execute, State, FailureCount and           *)
(* SuccessCount is a step, and so is every read and write they enclose     *)
(***************************************************************************)
\* sync.RWMutex: RLock returns when no writer holds the mutex and none is
\* blocked in Lock; Lock returns when nobody holds the mutex
CanRLock == mutex.writers = {} /\ mutex.pending = {}
CanLockShared == mutex.readers = {}
CanLock == mutex.writers = {} /\ mutex.readers = {}

\* canExecute on an open breaker whose timeout has elapsed: cb.mutex.RUnlock()
\* comes before cb.mutex.Lock()
UpgradeHoldingRead == "ce_lock"
Upgrade == "ce_up_runlock"

\* the accessors of the breaker
Getters == {"State", "FailureCount", "SuccessCount"}

\* what the steps of this specification never change
lockRest == <<cbConfig, invoked, admittedAs, wrote, hoFailAt, hoSucc, ctxDone, rlAll,
              sendAll>>

\* the breaker as recordResult leaves it
Breaker ==
    [state |-> state, failureCount |-> failureCount, successCount |-> successCount,
     lastFailTime |-> lastFailTime]

\* A caller calls CircuitBreaker.Execute(fn): if !cb.config.Enabled { return fn() }
LockedExecuteCall(p) ==
    /\ pc[p] = "idle"
    /\ calls < MaxLockCalls
    /\ calls' = calls + 1
    /\ op' = [op EXCEPT ![p] = "execute"]
    /\ err' = [err EXCEPT ![p] = "nil"]
    /\ local' = [local EXCEPT ![p] = NoLocal]
    /\ Goto(p, IF cbConfig.Enabled THEN "ce_rlock" ELSE "ce_fn")
    /\ UNCHANGED <<now, state, failureCount, successCount, lastFailTime, streak, mutex,
                   lockRest>>

\* A caller calls State(), FailureCount() or SuccessCount()
GetterCall(p) ==
    /\ pc[p] = "idle"
    /\ calls < MaxLockCalls
    /\ calls' = calls + 1
    /\ \E g \in Getters : op' = [op EXCEPT ![p] = g]
    /\ err' = [err EXCEPT ![p] = "nil"]
    /\ local' = [local EXCEPT ![p] = NoLocal]
    /\ Goto(p, "get_rlock")
    /\ UNCHANGED <<now, state, failureCount, successCount, lastFailTime, streak, mutex,
                   lockRest>>

\* cb.mutex.RLock() of canExecute (at its entry and after the upgrade) and of
\* the accessors
RLock(p) ==
    /\ pc[p] \in {"ce_rlock", "ce_rerlock", "get_rlock"}
    /\ CanRLock
    /\ mutex' = [mutex EXCEPT !.readers = @ \cup {p}]
    /\ Goto(p, CASE pc[p] = "ce_rlock" -> "ce_switch"
                 [] pc[p] = "ce_rerlock" -> "ce_reread"
                 [] pc[p] = "get_rlock" -> "get_read")
    /\ UNCHANGED <<now, state, failureCount, successCount, lastFailTime, streak, op, err,
                   calls, local, lockRest>>

\* canExecute: the switch on cb.state
CanExecuteSwitch(p) ==
    /\ pc[p] = "ce_switch"
    /\ IF state = CircuitBreakerOpen
       THEN IF Elapsed(lastFailTime, cbConfig.Timeout)
            THEN /\ Goto(p, Upgrade)
                 /\ UNCHANGED local
            ELSE /\ Goto(p, "ce_runlock")
                 /\ local' = [local EXCEPT ![p].can = FALSE]
       ELSE /\ Goto(p, "ce_runlock")
            /\ local' = [local EXCEPT ![p].can = TRUE]
    /\ UNCHANGED <<now, state, failureCount, successCount, lastFailTime, streak, op, err,
                   calls, mutex, lockRest>>

\* cb.mutex.RUnlock(): before the upgrade, and deferred, when canExecute or an
\* accessor returns; Execute returns ErrCircuitBreakerOpen if canExecute
\* returned false
RUnlock(p) ==
    /\ pc[p] \in {"ce_up_runlock", "ce_runlock", "get_runlock"}
    /\ mutex' = [mutex EXCEPT !.readers = @ \ {p}]
    /\ IF pc[p] = "ce_up_runlock"
       THEN /\ Goto(p, "ce_lock")
            /\ UNCHANGED <<err, local>>
       ELSE IF pc[p] = "ce_runlock" /\ local[p].can
       THEN /\ Goto(p, "ce_fn")
            /\ UNCHANGED <<err, local>>
       ELSE /\ Goto(p, "idle")
            /\ err' = [err EXCEPT ![p] = IF pc[p] = "ce_runlock" THEN "circuit_open" ELSE @]
            /\ local' = [local EXCEPT ![p] = NoLocal]
    /\ UNCHANGED <<now, state, failureCount, successCount, lastFailTime, streak, op,
                   calls, lockRest>>

\* cb.mutex.Lock() is called, in canExecute or in recordResult: from now on
\* no RLock returns
LockRequest(p) ==
    /\ pc[p] \in {"ce_lock", "rr_lock"}
    /\ mutex' = [mutex EXCEPT !.pending = @ \cup {p}]
    /\ Goto(p, IF pc[p] = "ce_lock" THEN "ce_locking" ELSE "rr_locking")
    /\ UNCHANGED <<now, state, failureCount, successCount, lastFailTime, streak, op, err,
                   calls, local, lockRest>>

\* cb.mutex.Lock() returns
LockAcquire(p) ==
    /\ pc[p] \in {"ce_locking", "rr_locking"}
    /\ CanLock
    /\ mutex' = [mutex EXCEPT !.pending = @ \ {p}, !.writers = @ \cup {p}]
    /\ IF pc[p] = "ce_locking"
       THEN /\ Goto(p, "ce_double")
            /\ UNCHANGED local
       ELSE /\ Goto(p, "rr_load")
            /\ local' = [local EXCEPT ![p].at = now, ![p].expect = RecordResult(err[p])]
    /\ UNCHANGED <<now, state, failureCount, successCount, lastFailTime, streak, op, err,
                   calls, lockRest>>

\* canExecute: the double check under the write lock
CanExecuteDouble(p) ==
    /\ pc[p] = "ce_double"
    /\ IF DoubleCheck
       THEN /\ state' = CircuitBreakerHalfOpen
            /\ successCount' = 0
       ELSE UNCHANGED <<state, successCount>>
    /\ Goto(p, "ce_unlock")
    /\ UNCHANGED <<now, failureCount, lastFailTime, streak, op, err, calls, mutex, local,
                   lockRest>>

\* cb.mutex.Unlock(): in canExecute, and deferred, when recordResult returns
Unlock(p) ==
    /\ pc[p] \in {"ce_unlock", "rr_unlock"}
    /\ mutex' = [mutex EXCEPT !.writers = @ \ {p}]
    /\ IF pc[p] = "ce_unlock"
       THEN /\ Goto(p, "ce_rerlock")
            /\ UNCHANGED local
       ELSE /\ Goto(p, "idle")
            /\ local' = [local EXCEPT ![p] = NoLocal]
    /\ UNCHANGED <<now, state, failureCount, successCount, lastFailTime, streak, op, err,
                   calls, lockRest>>

\* canExecute: return cb.state == CircuitBreakerHalfOpen
CanExecuteResult(p) ==
    /\ pc[p] = "ce_reread"
    /\ local' = [local EXCEPT ![p].can = (state = CircuitBreakerHalfOpen)]
    /\ Goto(p, "ce_runlock")
    /\ UNCHANGED <<now, state, failureCount, successCount, lastFailTime, streak, op, err,
                   calls, mutex, lockRest>>

\* err := fn(): the wrapped operation returns
LockedOperation(p) ==
    /\ pc[p] = "ce_fn"
    /\ \E e \in {"nil", "failed"} : err' = [err EXCEPT ![p] = e]
    /\ Goto(p, IF cbConfig.Enabled THEN "rr_lock" ELSE "idle")
    /\ UNCHANGED <<now, state, failureCount, successCount, lastFailTime, streak, op,
                   calls, mutex, local, lockRest>>

\* recordResult: cb.failureCount++ or cb.successCount++ reads the counter
RecordLoad(p) ==
    /\ pc[p] = "rr_load"
    /\ local' = [local EXCEPT ![p].tmp = IF IsFailure(err[p]) THEN failureCount
                                         ELSE successCount]
    /\ Goto(p, "rr_store")
    /\ UNCHANGED <<now, state, failureCount, successCount, lastFailTime, streak, op, err,
                   calls, mutex, lockRest>>

\* recordResult: the counter is written; cb.lastFailTime = time.Now()
RecordStore(p) ==
    /\ pc[p] = "rr_store"
    /\ IF IsFailure(err[p])
       THEN /\ failureCount' = local[p].tmp + 1
            /\ lastFailTime' = NewLastFailTime
            /\ UNCHANGED successCount
       ELSE /\ successCount' = local[p].tmp + 1
            /\ UNCHANGED <<failureCount, lastFailTime>>
    /\ Goto(p, "rr_compare")
    /\ UNCHANGED <<now, state, streak, op, err, calls, mutex, local, lockRest>>

\* the failures in a row recorded since the breaker was Closed with count 0
StreakAfter(e, st, fc) ==
    IF st = CircuitBreakerClosed /\ fc = 0 THEN 0
    ELSE IF e # "nil" /\ streak # Broken /\ streak < cbConfig.FailureThreshold
    THEN streak + 1
    ELSE Broken

\* recordResult: the comparison with the threshold and the transition
RecordCompare(p) ==
    /\ pc[p] = "rr_compare"
    /\ IF IsFailure(err[p])
       THEN /\ state' = IF ShouldOpen(state, failureCount) THEN CircuitBreakerOpen
                        ELSE IF state = CircuitBreakerHalfOpen THEN CircuitBreakerOpen
                        ELSE state
            /\ streak' = StreakAfter(err[p], state', failureCount)
            /\ Goto(p, "rr_unlock")
            /\ UNCHANGED failureCount
       ELSE /\ IF ShouldClose(state, successCount)
               THEN /\ state' = CircuitBreakerClosed
                    /\ failureCount' = 0
               ELSE UNCHANGED <<state, failureCount>>
            /\ Goto(p, "rr_decay")
            /\ UNCHANGED streak
    /\ UNCHANGED <<now, successCount, lastFailTime, op, err, calls, mutex, local,
                   lockRest>>

\* recordResult after a success: the failure count of a Closed breaker whose
\* last failure is old is reset
RecordDecay(p) ==
    /\ pc[p] = "rr_decay"
    /\ failureCount' = IF state = CircuitBreakerClosed /\ IsStale THEN 0 ELSE failureCount
    /\ streak' = StreakAfter(err[p], state, failureCount')
    /\ Goto(p, "rr_unlock")
    /\ UNCHANGED <<now, state, successCount, lastFailTime, op, err, calls, mutex, local,
                   lockRest>>

\* an accessor reads its field
GetterRead(p) ==
    /\ pc[p] = "get_read"
    /\ local' = [local EXCEPT ![p].tmp = CASE op[p] = "FailureCount" -> failureCount
                                           [] op[p] = "SuccessCount" -> successCount
                                           [] OTHER -> 0]
    /\ Goto(p, "get_runlock")
    /\ UNCHANGED <<now, state, failureCount, successCount, lastFailTime, streak, op, err,
                   calls, mutex, lockRest>>

\* NewCircuitBreaker: the configurations of the breaker
LockCBConfigs ==
    {c \in CBConfigs : c.FailureThreshold <= 2 /\ c.SuccessThreshold = 1
                       /\ c.Timeout = 1 /\ c.ResetTimeout = MaxTimeout}

\* time passes until the breaker's timeout has elapsed
LockTick == now < cbConfig.Timeout /\ Tick

LockInit ==
    /\ CBInit
    /\ cbConfig \in LockCBConfigs

\* the steps of one caller
LockStep(p) ==
    \/ RLock(p)
    \/ CanExecuteSwitch(p)
    \/ RUnlock(p)
    \/ LockRequest(p)
    \/ LockAcquire(p)
    \/ CanExecuteDouble(p)
    \/ Unlock(p)
    \/ CanExecuteResult(p)
    \/ LockedOperation(p)
    \/ RecordLoad(p)
    \/ RecordStore(p)
    \/ RecordCompare(p)
    \/ RecordDecay(p)
    \/ GetterRead(p)

LockNext ==
    \/ LockTick
    \/ \E p \in Callers :
        \/ LockedExecuteCall(p)
        \/ GetterCall(p)
        \/ LockStep(p)

SpecLock == LockInit /\ [][LockNext]_vars

\* a goroutine that can take a step takes one
LockFairness == \A p \in Callers : WF_vars(LockStep(p))

SpecLockLive == SpecLock /\ LockFairness

(***************************************************************************)
(* Properties of the circuit breaker, checked under SpecCB                 *)
(***************************************************************************)
\* the step in which caller p leaves label l
Leaves(p, l) == pc[p] = l /\ pc'[p] # l

\* the step in which caller p's canExecute decides to admit the call
Admits(p) == admittedAs[p] = "none" /\ admittedAs'[p] # "none"

\* the step in which caller p's outcome is recorded
Records(p) == Leaves(p, "cb_record")

\* callers admitted while HalfOpen whose outcome is not recorded yet
PendingProbes ==
    {p \in Callers : pc[p] \in {"fn", "cb_record"}
                     /\ admittedAs[p] = CircuitBreakerHalfOpen}

\* C3: from Closed with failureCount 0, the record of the failureThreshold-th
\* consecutive failure leaves the breaker Open; it stays Open while openTimeout
\* has not elapsed since that failure, and an Execute whose admission check
\* runs then returns the circuit-open failure without invoking the operation.
C3_OpenAfterThresholdFailures ==
    /\ [][(streak # cbConfig.FailureThreshold /\ streak' = cbConfig.FailureThreshold)
            => state' = CircuitBreakerOpen]_vars
    /\ [](streak = cbConfig.FailureThreshold
            /\ ~Elapsed(lastFailTime, cbConfig.Timeout)
          => state = CircuitBreakerOpen)
    /\ [][\A p \in Callers :
            (Leaves(p, "cb_check") /\ streak = cbConfig.FailureThreshold
               /\ ~Elapsed(lastFailTime, cbConfig.Timeout))
            => /\ err'[p] = "circuit_open"
               /\ pc'[p] = Return(p)
               /\ ~invoked'[p]]_vars

\* C3 witness: two consecutive failures opened a breaker of threshold 2 and a
\* call was rejected, the operation not invoked, before the timeout elapsed.
C3_Witness ==
    /\ cbConfig.FailureThreshold = 2
    /\ streak = 2
    /\ state = CircuitBreakerOpen
    /\ ~Elapsed(lastFailTime, cbConfig.Timeout)
    /\ \E p \in Callers : pc[p] = "idle" /\ err[p] = "circuit_open" /\ ~invoked[p]

\* C4: while the outcome of a call admitted as the HalfOpen probe is not yet
\* recorded, no second call is admitted as a probe.
C4_SingleProbe == cbConfig.Timeout > 0 => Cardinality(PendingProbes) <= 1

\* C5: a failure recorded while HalfOpen moves the breaker to Open and sets the
\* last-failure time to the time of that failure, and no call is admitted
\* before a full openTimeout has elapsed since that failure.
C5_HalfOpenFailureReopens ==
    /\ [][\A p \in Callers :
            (Records(p) /\ err[p] # "nil" /\ state = CircuitBreakerHalfOpen)
            => state' = CircuitBreakerOpen /\ lastFailTime' = now]_vars
    /\ [][\A p \in Callers :
            (Admits(p) /\ hoFailAt # ZeroTime)
            => now - hoFailAt >= cbConfig.Timeout]_vars

\* C5 witness: a probe failed, a call was rejected in the following timeout.
C5_Witness ==
    /\ hoFailAt # ZeroTime
    /\ cbConfig.Timeout > 0
    /\ state = CircuitBreakerOpen
    /\ lastFailTime = hoFailAt
    /\ now - hoFailAt < cbConfig.Timeout
    /\ \E p \in Callers : pc[p] = "idle" /\ err[p] = "circuit_open" /\ ~wrote[p]
    /\ \E p \in Callers : pc[p] = "idle" /\ err[p] = "failed" /\ wrote[p]

C7_ClosedSuccessIsIdempotent ==
    [][\A p \in Callers :
         (Records(p) /\ err[p] = "nil"
            /\ state = CircuitBreakerClosed /\ failureCount = 0)
         => state' = CircuitBreakerClosed /\ failureCount' = 0]_vars

\* C7 witness: three successes were recorded in a Closed breaker.
C7_Witness ==
    /\ cbConfig.Enabled
    /\ state = CircuitBreakerClosed
    /\ failureCount = 0
    /\ successCount = 3
    /\ streak = 0

\* C8: a call that returns the circuit-open failure has not changed the
\* breaker.
C8_RejectionWithoutSideEffects ==
    cbConfig.Timeout > 0 => \A p \in Callers : err[p] = "circuit_open" => ~wrote[p]

(***************************************************************************)
(* Properties of the rate limiter, checked under SpecRL                    *)
(***************************************************************************)
\* every acquire has weight 1
UnitWeight == rlConfig.Enabled /\ ~rlConfig.PerRecipient

\* C9: a Wait that returns rate-limited has taken no token from the bucket.
C9_DeniedAcquireTakesNothing ==
    \A p \in Callers : err[p] = "rate_limited" => got[p] = 0

C11_TokensWithinBucket ==
    /\ [](tokens >= 0 /\ tokens <= rlConfig.Burst)
    /\ [](now = nextRefill => ENABLED Refill)
    /\ [][(ticks' = ticks + 1 /\ tokens = rlConfig.Burst) => tokens' = tokens]_vars
    /\ [][(ticks' = ticks + 1 /\ tokens < rlConfig.Burst) => tokens' = tokens + 1]_vars

\* C11 witness: tokens were taken, the bucket was refilled to Burst, and a
\* later tick found it full and left it full.
C11_Witness ==
    /\ rlConfig.Enabled
    /\ calls > 0
    /\ ticks = 2
    /\ preRefill = rlConfig.Burst
    /\ tokens = rlConfig.Burst
    /\ \E p \in Callers : pc[p] = "idle" /\ err[p] = "nil" /\ got[p] > 0

C1_EveryInvocationThroughBreaker ==
    (client.breaker /\ client.retry) => \A p \in Callers : ~unguarded[p]

\* C2: one Send invokes the unit of work at most MaxAttempts times, the first
\* invocation included.
C2_AtMostMaxAttemptsInvocations ==
    client.retry => \A p \in Callers : fnCount[p] <= retryConfig.MaxAttempts

\* C13: once the client is closed the refill process is stopped: no step adds
\* a token to the bucket.
C13_NoRefillAfterClose == [][closed => tokens' <= tokens]_vars

(***************************************************************************)
(* Properties of RetryManager.Retry, checked under SpecRetry               *)
(***************************************************************************)
\* C14: when the first attempt of an enabled Retry fails with an error that
\* is not retryable, Retry returns that error at once: the unit of work was
\* invoked once and is not invoked again.
C14_NonRetryableStopsAtOnce ==
    [][\A p \in Callers :
        (pc[p] = "retry_attempted" /\ attempt[p] = 1 /\ err[p] = "permanent"
         /\ pc'[p] # pc[p])
        => /\ pc'[p] = "idle"
           /\ err'[p] = "permanent"
           /\ fnCount[p] = 1
           /\ fnCount'[p] = 1]_vars

\* C14 witness: a Retry allowed 2 attempts returned a permanent failure after
\* one invocation.
C14_Witness ==
    /\ retryConfig.Enabled
    /\ retryConfig.MaxAttempts = 2
    /\ \E p \in Callers :
         /\ op[p] = "retry"
         /\ pc[p] = "idle"
         /\ err[p] = "permanent"
         /\ fnCount[p] = 1

\* C15: an enabled Retry invokes the unit of work at most MaxAttempts times;
\* after a successful invocation it returns nil at once; after the failure of
\* attempt MaxAttempts it returns that failure at once, without sleeping; and
\* every call of Retry returns.
C15_BoundedAttemptsLastFailure ==
    /\ [](\A p \in Callers :
            (op[p] = "retry" /\ retryConfig.Enabled)
            => fnCount[p] <= retryConfig.MaxAttempts /\ attempt[p] <= retryConfig.MaxAttempts)
    /\ [][\A p \in Callers :
            (pc[p] = "retry_attempted" /\ attempt[p] >= 1 /\ pc'[p] # pc[p]
             /\ (err[p] = "nil" \/ attempt[p] = retryConfig.MaxAttempts))
            => /\ pc'[p] = "idle"
               /\ err'[p] = err[p]
               /\ retryAfter'[p] = retryAfter[p]
               /\ fnCount'[p] = fnCount[p]
               /\ now' = now]_vars
    /\ \A p \in Callers : (pc[p] # "idle") ~> (pc[p] = "idle")

\* C15 witness: a Retry of 2 attempts and computed delay 2 returned at time 1
\* the plain retryable failure of its second invocation: the first one failed
\* with a retry-after of 1.
C15_Witness ==
    /\ retryConfig.Enabled
    /\ retryConfig.MaxAttempts = 2
    /\ retryConfig.InitialDelay = 2
    /\ retryConfig.MaxDelay = 2
    /\ now = 1
    /\ calls = 1
    /\ \E p \in Callers :
         /\ op[p] = "retry"
         /\ pc[p] = "idle"
         /\ err[p] = "retryable"
         /\ retryAfter[p] = 0
         /\ fnCount[p] = 2

\* C16: a Retry whose context is cancelled when its select between ctx.Done()
\* and the timer is decided returns the cancellation and invokes the unit of
\* work no more.
C16_CancellationPreferred ==
    [][\A p \in Callers :
        (pc[p] = "retry_wait" /\ ctxDone[p] /\ pc'[p] # pc[p])
        => pc'[p] = "idle" /\ err'[p] = "cancelled" /\ fnCount'[p] = fnCount[p]]_vars

\* C17: when Retry goes to sleep after a failure that carries a retry-after
\* hint, the timer is set to exactly the hint, whatever calculateDelay gives.
C17_HintOverridesBackoff ==
    [][\A p \in Callers :
        (pc[p] = "retry_attempted" /\ pc'[p] = "retry_wait" /\ retryAfter[p] > 0)
        => wakeAt'[p] = now + retryAfter[p]]_vars

\* C17 witness: a Retry whose computed delay is 2 sleeps for the hint 1.
C17_Witness ==
    /\ retryConfig.InitialDelay = 2
    /\ retryConfig.MaxDelay = 2
    /\ \E p \in Callers :
         /\ pc[p] = "retry_wait"
         /\ attempt[p] = 1
         /\ err[p] = "retryable_hint"
         /\ retryAfter[p] = 1
         /\ wakeAt[p] = now + 1

\* C18: a disabled Retry invokes the unit of work once and returns what it
\* returned, nil or any error; it never reaches the select on ctx.Done(), so
\* a cancelled context changes nothing.
C18_DisabledRetryCallsOnce ==
    /\ [](\A p \in Callers :
            (op[p] = "retry" /\ ~retryConfig.Enabled)
            => fnCount[p] <= 1 /\ pc[p] # "retry_wait")
    /\ [][\A p \in Callers :
            (op[p] = "retry" /\ ~retryConfig.Enabled
             /\ pc[p] = "retry_attempted" /\ pc'[p] # pc[p])
            => /\ pc'[p] = "idle"
               /\ err'[p] = err[p]
               /\ retryAfter'[p] = retryAfter[p]
               /\ fnCount[p] = 1
               /\ fnCount'[p] = 1]_vars

\* C18 witness: a disabled Retry configured with 2 attempts, called with a
\* cancelled context, returned the retryable failure of its one invocation.
C18_Witness ==
    /\ ~retryConfig.Enabled
    /\ retryConfig.MaxAttempts = 2
    /\ \E p \in Callers :
         /\ op[p] = "retry"
         /\ pc[p] = "idle"
         /\ ctxDone[p]
         /\ err[p] = "retryable"
         /\ fnCount[p] = 1

(***************************************************************************)
(* Properties of calculateDelay, checked under SpecBackoff                 *)
(***************************************************************************)
\* the smaller of two numbers
Min(a, b) == IF a <= b THEN a ELSE b

\* C19: without jitter, calculateDelay(attempt) is exactly
\* min(InitialDelay * Multiplier^(attempt-1), MaxDelay), for every attempt
\* from 1 to MaxAttempts (stated for positive InitialDelay and MaxDelay).
C19_DelayIsCappedBackoff ==
    \A p \in Callers :
        (op[p] = "delay" /\ ~retryConfig.Jitter
         /\ retryConfig.InitialDelay > 0 /\ retryConfig.MaxDelay > 0)
        => wakeAt[p] - now = Min(Backoff(attempt[p]), retryConfig.MaxDelay)

C30_RateLimitedRetryAfterInspectable ==
    \A p \in Callers :
        (pc[p] = "idle" /\ err[p] = "rate_limited" /\ retryAfter[p] > 0)
        => /\ retryAfter[p] = rlConfig.Period \div rlConfig.Rate
           /\ GetRetryAfter(err[p], retryAfter[p]) = retryAfter[p]

(***************************************************************************)
(* Properties of the order of the stages of Send, checked under SpecSend   *)
(***************************************************************************)
\* C21: in a Send whose primary provider fails with a retryable failure and
\* whose client has a fallback provider, the unit of work calls the fallback;
\* when the fallback succeeds the result Send holds is the fallback's, the
\* breaker hands the success back unchanged, and Send returns nil with that
\* result and without a further provider call.
C21_FallbackSuccessIsTheResult ==
    [][\A p \in Callers :
        (InSend(p) /\ pc'[p] # pc[p])
        => /\ (pc[p] = "fn" /\ client.fallback
                /\ err'[p] \in {"retryable", "retryable_hint"})
               => pc'[p] = "fn_fallback"
           /\ (pc[p] = "fn_fallback" /\ err'[p] = "nil")
               => result'[p] = "fallback"
           /\ (pc[p] = "cb_record")
               => /\ pc'[p] = "send_executed"
                  /\ err'[p] = err[p]
                  /\ result'[p] = result[p]
           /\ (pc[p] = "send_executed" /\ err[p] = "nil")
               => /\ pc'[p] = "idle"
                  /\ err'[p] = "nil"
                  /\ result'[p] = result[p]
                  /\ fnCount'[p] = fnCount[p]]_vars

\* C21 witness: a Send through the breaker of a client with retry returned
\* nil after one invocation of the unit of work, holding the fallback's result.
C21_Witness ==
    /\ client.breaker
    /\ client.retry
    /\ \E p \in Callers :
         /\ op[p] = "send"
         /\ pc[p] = "idle"
         /\ err[p] = "nil"
         /\ result[p] = "fallback"
         /\ fnCount[p] = 1
         /\ invoked[p]

\* C23: a Send of a message that fails validation, on a client that is not
\* closed, returns the validation failure at once: the bucket, the breaker
\* and the providers are left alone and Retry is not entered.
C23_ValidationFailureReturned ==
    [][\A p \in Callers :
        (pc[p] = "idle" /\ op'[p] = "send" /\ calls' = calls + 1
         /\ ~closed /\ err'[p] # "nil")
        => /\ err'[p] = "validation"
           /\ pc'[p] = "idle"
           /\ tokens' = tokens
           /\ cbVars' = cbVars
           /\ fnCount'[p] = 0
           /\ attempt'[p] = 0]_vars

\* C24: when Wait denies a Send, Send returns the rate-limited failure as its
\* next step: no provider was or is called, Retry is not entered and the
\* breaker's state, counters and last failure time are what they were.
C24_LimiterDenialReturnsAtOnce ==
    [][\A p \in Callers :
        /\ (pc[p] = "rl_acquire" /\ err'[p] = "rate_limited")
            => (pc'[p] = "send_limited" /\ cbVars' = cbVars /\ fnCount'[p] = 0)
        /\ (pc[p] = "send_limited" /\ err[p] = "rate_limited" /\ pc'[p] # pc[p])
            => /\ pc'[p] = "idle"
               /\ err'[p] = "rate_limited"
               /\ cbVars' = cbVars
               /\ fnCount'[p] = 0
               /\ result'[p] = "none"
               /\ ~invoked'[p]
               /\ attempt'[p] = 0]_vars

\* C24 witness: with the breaker open after a failure, a Send of a client
\* with retry and fallback returned the rate-limited failure.
C24_Witness ==
    /\ client.breaker
    /\ client.retry
    /\ client.fallback
    /\ state = CircuitBreakerOpen
    /\ \E p \in Callers :
         /\ op[p] = "send"
         /\ pc[p] = "idle"
         /\ err[p] = "rate_limited"
         /\ fnCount[p] = 0

\* C25: when Execute rejects a Send with the circuit-open failure, no provider
\* was called, and Send returns that failure as its next step without
\* entering Retry, whether or not the client has a retry manager.
C25_CircuitOpenNeverRetried ==
    [][\A p \in Callers :
        (InSend(p) /\ pc[p] = "send_executed" /\ err[p] = "circuit_open"
         /\ pc'[p] # pc[p])
        => /\ fnCount[p] = 0
           /\ pc'[p] = "idle"
           /\ err'[p] = "circuit_open"
           /\ fnCount'[p] = 0
           /\ attempt'[p] = 0]_vars

\* C25 witness: a Send of a client with an enabled retry manager returned the
\* circuit-open failure without any invocation of the unit of work.
C25_Witness ==
    /\ client.retry
    /\ retryConfig.Enabled
    /\ state = CircuitBreakerOpen
    /\ \E p \in Callers :
         /\ op[p] = "send"
         /\ pc[p] = "idle"
         /\ err[p] = "circuit_open"
         /\ fnCount[p] = 0

(***************************************************************************)
(* Properties of Close, SendBatch and SendTemplate, checked under          *)
(* SpecClient                                                              *)
(***************************************************************************)
\* C22: a Send, SendBatch or SendTemplate that starts on a closed client
\* returns the client-closed failure as its only step: nothing is validated
\* or rendered, no token is taken, the breaker is not consulted and no
\* provider is called.
C22_RejectedAfterClose ==
    [][\A p \in Senders :
        (pc[p] = "idle" /\ closed /\ calls' = calls + 1)
        => /\ pc'[p] = "idle"
           /\ err'[p] = "client_closed"
           /\ tokens' = tokens
           /\ needed'[p] = 0
           /\ cbVars' = cbVars
           /\ admittedAs'[p] = "none"
           /\ ~invoked'[p]
           /\ fnCount'[p] = 0
           /\ batchHist'[p] = NoBatchHist]_vars

\* C22 witness: a SendTemplate on a closed client that has a template
\* engine, a limiter and a breaker returned the client-closed failure.
C22_Witness ==
    /\ closed
    /\ client.templates
    /\ client.limiter
    /\ client.breaker
    /\ \E p \in Senders :
         /\ op[p] = "template"
         /\ pc[p] = "idle"
         /\ err[p] = "client_closed"

C27_DegradationReportsInvalidIndex ==
    \A p \in Senders :
        (op[p] = "batch" /\ pc[p] = "idle" /\ err[p] # "client_closed"
         /\ client.fallback
         /\ Len(emails[p]) = 3
         /\ emails[p][1].kind = "valid"
         /\ emails[p][2].kind = "invalid"
         /\ emails[p][3].kind = "valid")
        => /\ err[p] = "batch_error"
           /\ batchErr[p].Total = 3
           /\ batchErr[p].Failed = 1
           /\ Len(batchErr[p].Errors) = 1
           /\ batchErr[p].Errors[1].Index = 1
           /\ batchErr[p].Errors[1].Error = "validation"

\* the indices 0 .. n-1 in order
Indices(n) == [i \in 1..n |-> i - 1]

\* C28: when the provider's SendBatch fails outright and the client has a
\* fallback, the emails go through Send one at a time in input order, each
\* once, whatever the earlier ones returned; every failed Send, and no other,
\* adds its index and its error to the list; the call returns nil if the
\* list is empty and otherwise a batch failure with Total = number of
\* emails, Failed = length of the list, and indices strictly increasing.
C28_IndividualRedispatch ==
    /\ [](\A p \in Senders :
            (op[p] = "batch" /\ pc[p] \notin {"idle", "batch_native"})
            => /\ batchHist[p].outcome # "nil"
               /\ client.fallback
               /\ batchHist[p].dispatched
                    = Indices(index[p] + (IF pc[p] = "batch_next" THEN 0 ELSE 1))
               /\ index[p] <= Len(emails[p]))
    /\ [](\A p \in Senders :
            (op[p] = "batch" /\ pc[p] = "idle" /\ batchHist[p].outcome # "nil"
             /\ client.fallback)
            => /\ batchHist[p].dispatched = Indices(Len(emails[p]))
               /\ IF batchErr[p].Errors = << >>
                  THEN err[p] = "nil" /\ batchErr[p] = NoBatchError
                  ELSE /\ err[p] = "batch_error"
                       /\ batchErr[p].Total = Len(emails[p])
                       /\ batchErr[p].Failed = Len(batchErr[p].Errors)
                       /\ \A k \in 1..Len(batchErr[p].Errors) :
                            /\ batchErr[p].Errors[k].Index \in 0..(Len(emails[p]) - 1)
                            /\ \A l \in 1..(k - 1) :
                                 batchErr[p].Errors[l].Index < batchErr[p].Errors[k].Index)
    /\ [][\A p \in Senders :
            /\ (pc[p] = "batch_native" /\ batchHist'[p].outcome # "nil" /\ client.fallback)
                => (pc'[p] = "batch_next" /\ index'[p] = 0 /\ batchErr'[p] = NoBatchError)
            /\ (pc[p] = "batch_sent" /\ pc'[p] # pc[p])
                => /\ pc'[p] = "batch_next"
                   /\ index'[p] = index[p] + 1
                   /\ IF err[p] = "nil"
                      THEN batchErr'[p] = batchErr[p]
                      ELSE /\ batchErr'[p].Failed = batchErr[p].Failed + 1
                           /\ batchErr'[p].Errors
                                = Append(batchErr[p].Errors,
                                         [Index |-> index[p], Error |-> err[p]])]_vars

\* C28 witness: of three emails sent one at a time the first and the third
\* failed and the second went out.
C28_Witness ==
    \E p \in Senders :
        /\ op[p] = "batch"
        /\ pc[p] = "idle"
        /\ err[p] = "batch_error"
        /\ batchHist[p].dispatched = <<0, 1, 2>>
        /\ batchErr[p].Total = 3
        /\ batchErr[p].Failed = 2
        /\ Len(batchErr[p].Errors) = 2
        /\ batchErr[p].Errors[1].Index = 0
        /\ batchErr[p].Errors[2].Index = 2

\* C29: when the provider's SendBatch returns without error, SendBatch
\* returns at once and calls no provider again; with failures reported it
\* returns a batch failure with Total = number of emails, Failed = number of
\* reported failures and one (index, error) pair per reported failure, in
\* the provider's order and with its indices and errors; with none it
\* returns nil.
C29_NativeFailuresSurfaced ==
    /\ [](\A p \in Senders :
            (op[p] = "batch" /\ batchHist[p].native > 0 /\ batchHist[p].outcome = "nil")
            => LET f == batchHist[p].reported
               IN  /\ pc[p] = "idle"
                   /\ batchHist[p].native = 1
                   /\ batchHist[p].dispatched = << >>
                   /\ fnCount[p] = 0
                   /\ IF f = << >>
                      THEN err[p] = "nil" /\ batchErr[p] = NoBatchError
                      ELSE /\ err[p] = "batch_error"
                           /\ batchErr[p].Total = Len(emails[p])
                           /\ batchErr[p].Failed = Len(f)
                           /\ Len(batchErr[p].Errors) = Len(f)
                           /\ \A k \in 1..Len(f) :
                                /\ batchErr[p].Errors[k].Index = f[k].Index
                                /\ batchErr[p].Errors[k].Error = f[k].Error)
    /\ [][\A p \in Senders :
            (pc[p] = "batch_native" /\ pc'[p] # pc[p] /\ batchHist'[p].outcome = "nil")
            => pc'[p] = "idle"]_vars

\* C29 witness: the provider reported index 2 and then index 0 of a batch of
\* three as failed, and SendBatch returned them in that order.
C29_Witness ==
    \E p \in Senders :
        /\ op[p] = "batch"
        /\ pc[p] = "idle"
        /\ client.fallback
        /\ err[p] = "batch_error"
        /\ batchHist[p].native = 1
        /\ Len(emails[p]) = 3
        /\ batchErr[p].Total = 3
        /\ batchErr[p].Failed = 2
        /\ Len(batchErr[p].Errors) = 2
        /\ batchErr[p].Errors[1] = [Index |-> 2, Error |-> "retryable"]
        /\ batchErr[p].Errors[2] = [Index |-> 0, Error |-> "permanent"]

C37_BreakerRecordsCompositeOutcome ==
    [][\A p \in Senders :
        (InSend(p) /\ pc[p] = "cb_record" /\ pc'[p] # pc[p])
        => /\ (result[p] = "fallback")
               => /\ failureCount' <= failureCount
                  /\ successCount' = successCount + 1
                  /\ lastFailTime' = lastFailTime
                  /\ (state' = CircuitBreakerOpen => state = CircuitBreakerOpen)
           /\ (result[p] = "none")
               => /\ err[p] # "nil"
                  /\ failureCount' = failureCount + 1
                  /\ successCount' = successCount]_vars

\* C37 witness: a Send whose primary failed and whose fallback delivered
\* went through a breaker with FailureThreshold 1, which is still closed
\* with no failure counted.
C37_Witness ==
    /\ client.breaker
    /\ cbConfig.FailureThreshold = 1
    /\ state = CircuitBreakerClosed
    /\ failureCount = 0
    /\ successCount = 1
    /\ \E p \in Senders :
         /\ op[p] = "send"
         /\ pc[p] = "send_executed"
         /\ result[p] = "fallback"
         /\ err[p] = "nil"

\* C38: tokens leave the bucket only in the Wait of a Send that has not yet
\* called a provider, one per step; Wait is entered only when a Send starts,
\* never by a Retry attempt or the fallback; and only the refill ticker puts
\* tokens back, whatever the Send returns.
C38_TokensTakenOncePerSend ==
    [][/\ (tokens' < tokens)
           => /\ tokens' = tokens - 1
              /\ \E p \in Senders :
                   /\ pc[p] = "rl_acquire"
                   /\ got'[p] = got[p] + 1
                   /\ fnCount[p] = 0
                   /\ attempt[p] = 0
       /\ (tokens' > tokens) => (ticks' = ticks + 1)
       /\ \A p \in Senders :
            (pc'[p] = "rl_acquire" /\ pc[p] # "rl_acquire") => pc[p] = "idle"]_vars

\* C38 witness: a Send that took the last tokens failed after three
\* invocations of its unit of work, and the bucket is still empty.
C38_Witness ==
    /\ client.limiter
    /\ client.retry
    /\ tokens = 0
    /\ ticks = 0
    /\ \E p \in Senders :
         /\ op[p] = "send"
         /\ pc[p] = "idle"
         /\ fnCount[p] = 3
         /\ err[p] = "permanent"

(***************************************************************************)
(* Properties of the breaker's counters and admission, checked under       *)
(* SpecCB                                                                  *)
(***************************************************************************)
\* C32: in a Closed breaker failureCount goes down only when a success is
\* recorded at least ResetTimeout after the last failure, and then to 0; a
\* success recorded sooner leaves it as it is, so the failures before and
\* after it add up.
C32_DecayOnlyOnStaleSuccess ==
    [][/\ (state = CircuitBreakerClosed /\ failureCount' < failureCount)
           => /\ failureCount' = 0
              /\ Elapsed(lastFailTime, cbConfig.ResetTimeout)
              /\ \E p \in Callers : Records(p) /\ err[p] = "nil"
       /\ \A p \in Callers :
            (Records(p) /\ err[p] = "nil" /\ state = CircuitBreakerClosed)
            => /\ state' = CircuitBreakerClosed
               /\ failureCount' = IF Elapsed(lastFailTime, cbConfig.ResetTimeout)
                                   THEN 0 ELSE failureCount]_vars

\* C32 witness: a breaker of threshold 2 counted a failure, then recorded a
\* success within ResetTimeout, and the next failure opened it.
C32_Witness ==
    /\ cbConfig.FailureThreshold = 2
    /\ cbConfig.ResetTimeout > 0
    /\ state = CircuitBreakerOpen
    /\ failureCount = 2
    /\ successCount = 1
    /\ streak = Broken
    /\ lastFailTime = now
    /\ \A p \in Callers : pc[p] = "idle" /\ ~wrote[p]

\* C35: a Closed breaker has counted fewer failures than FailureThreshold.
C35_ClosedBelowThreshold ==
    state = CircuitBreakerClosed => failureCount < cbConfig.FailureThreshold

\* C35 witness: a Closed breaker of threshold 2 has counted one failure and
\* two callers are about to record a failure each.
C35_Witness ==
    /\ cbConfig.FailureThreshold = 2
    /\ state = CircuitBreakerClosed
    /\ failureCount = 1
    /\ \A p \in Callers : pc[p] = "cb_record" /\ err[p] = "failed"

\* C36: a call gets the circuit-open failure only when the breaker is Open
\* at the read of cb.state that decides it (stated for a positive Timeout).
C36_RejectedOnlyWhileOpen ==
    [][\A p \in Callers :
        (cbConfig.Timeout > 0 /\ pc[p] \in {"cb_check", "cb_reread"}
         /\ pc'[p] # pc[p] /\ err'[p] = "circuit_open")
        => state = CircuitBreakerOpen]_vars

(***************************************************************************)
(* Properties of the native batch call, checked under SpecClient           *)
(***************************************************************************)
\* C39: a SendBatch of valid emails on an open client goes straight to the
\* provider's SendBatch, whatever the breaker's state; when that call
\* returns without error SendBatch returns, having called the provider
\* once, taken no token and neither read nor changed the breaker.
C39_NativeBatchNotGated ==
    [][\A p \in Senders :
        /\ (pc[p] = "idle" /\ ~closed /\ op'[p] = "batch" /\ calls' = calls + 1
             /\ Len(emails'[p]) > 0
             /\ \A i \in 1..Len(emails'[p]) : emails'[p][i].kind = "valid")
            => /\ pc'[p] = "batch_native"
               /\ tokens' = tokens
               /\ cbVars' = cbVars
        /\ (pc[p] = "batch_native" /\ pc'[p] # pc[p] /\ batchHist'[p].outcome = "nil")
            => /\ pc'[p] = "idle"
               /\ batchHist'[p].native = 1
               /\ batchHist'[p].dispatched = << >>
               /\ tokens' = tokens
               /\ cbVars' = cbVars
               /\ admittedAs'[p] = "none"
               /\ ~invoked'[p]
               /\ fnCount'[p] = 0]_vars

\* C39 witness: with the breaker open and the bucket empty, a SendBatch of
\* three emails returned nil after one call of the provider.
C39_Witness ==
    /\ client.breaker
    /\ client.limiter
    /\ state = CircuitBreakerOpen
    /\ tokens = 0
    /\ \E p \in Senders :
         /\ op[p] = "batch"
         /\ pc[p] = "idle"
         /\ err[p] = "nil"
         /\ Len(emails[p]) = 3
         /\ batchHist[p].native = 1
         /\ batchHist[p].outcome = "nil"

(***************************************************************************)
(* Properties of SendTemplate, checked under SpecClient                    *)
(***************************************************************************)
\* C34: SendTemplate renders the subject template only when the request's
\* subject is empty and otherwise keeps the request's subject; a template
\* that is not found leaves its field empty and SendTemplate goes on to the
\* next template or to Send, which gets the email with that field empty;
\* any other render failure makes SendTemplate return a template error
\* there and then, and without a template engine it returns an error at
\* once: in both cases no token is taken, the breaker is untouched and no
\* provider is called.
C34_TemplateRendering ==
    /\ [](\A p \in Senders :
            /\ rendering[p].outcome.subject # "none" => rendering[p].req.Subject = ""
            /\ rendering[p].req.Subject # "" => rendering[p].Subject = rendering[p].req.Subject)
    /\ [][\A p \in Senders :
            /\ (pc[p] = "idle" /\ op'[p] = "template" /\ calls' = calls + 1 /\ ~closed)
                => IF client.templates
                   THEN pc'[p] = (IF rendering'[p].req.Subject = ""
                                  THEN "render_subject" ELSE "render_html")
                   ELSE /\ pc'[p] = "idle"
                        /\ err'[p] = "template_disabled"
                        /\ rendering'[p].outcome = NoRender
                        /\ tokens' = tokens
                        /\ cbVars' = cbVars
                        /\ fnCount'[p] = 0
                        /\ result'[p] = "none"
            /\ \A f \in {"subject", "html", "text"} :
                 (pc[p] = RenderStep(f) /\ pc'[p] # pc[p])
                 => LET o == rendering'[p].outcome[f]
                        field == CASE f = "subject" -> rendering'[p].Subject
                                   [] f = "html" -> rendering'[p].HTMLBody
                                   [] f = "text" -> rendering'[p].TextBody
                    IN  /\ o = "not_found" => field = "" /\ pc'[p] = AfterRender(f)
                                               /\ err'[p] = "nil"
                        /\ o = "ok" => field # "" /\ pc'[p] = AfterRender(f)
                        /\ o = "error" => /\ pc'[p] = "idle"
                                           /\ err'[p] = "template_error"
                                           /\ tokens' = tokens
                                           /\ cbVars' = cbVars
                                           /\ fnCount'[p] = 0
                                           /\ result'[p] = "none"
            /\ (pc[p] = "template_rendered" /\ pc'[p] # pc[p] /\ ~closed
                 /\ rendering[p].req.kind = "valid")
                => (err'[p] = "validation")
                   = (rendering[p].Subject = ""
                      \/ (rendering[p].HTMLBody = "" /\ rendering[p].TextBody = ""))]_vars

\* C34 witness: a SendTemplate with a subject whose HTML template was not
\* found sent the email, rendered text only, through the provider.
C34_Witness ==
    \E p \in Senders :
        /\ op[p] = "template"
        /\ pc[p] = "idle"
        /\ err[p] = "nil"
        /\ fnCount[p] = 1
        /\ result[p] # "none"
        /\ rendering[p].req.Subject = "given"
        /\ rendering[p].outcome = [subject |-> "none", html |-> "not_found", text |-> "ok"]
        /\ rendering[p].HTMLBody = ""

(***************************************************************************)
(* Properties of the breaker's locking, checked under SpecLock and         *)
(* SpecLockLive                                                            *)
(***************************************************************************)
\* C33: under any interleaving of concurrent Execute and accessor calls, at
\* most one caller is inside recordResult or the upgrade of canExecute and
\* no reader is inside with it; when recordResult is about to unlock, the
\* breaker is what one atomic recordResult makes of the breaker as it was
\* when the lock was taken (the increment, the comparison and the
\* transition, nothing of another call in between); no increment is lost
\* (failures recorded in a row from Closed with count 0 are all counted);
\* and once FailureThreshold of them are recorded the breaker is Open until
\* its timeout elapses.
C33_RecordingLinearizable ==
    /\ Cardinality(mutex.writers) <= 1
    /\ mutex.writers # {} => mutex.readers = {}
    /\ \A p \in Callers :
         (pc[p] = "rr_unlock" /\ local[p].at = now) => Breaker = local[p].expect
    /\ (mutex.writers = {} /\ streak # Broken) => failureCount = streak
    /\ (mutex.writers = {} /\ streak = cbConfig.FailureThreshold
          /\ ~Elapsed(lastFailTime, cbConfig.Timeout))
        => state = CircuitBreakerOpen

\* C33 witness: two callers were admitted while the breaker of threshold 2
\* was Closed with count 0 and both failed; one has recorded its failure,
\* the other, having waited for the lock, has recorded the second and
\* opened the breaker.
C33_Witness ==
    /\ cbConfig.FailureThreshold = 2
    /\ calls = 2
    /\ now = 0
    /\ state = CircuitBreakerOpen
    /\ failureCount = 2
    /\ streak = 2
    /\ \E p \in Callers :
         /\ pc[p] = "rr_unlock"
         /\ err[p] = "failed"
         /\ mutex.writers = {p}
         /\ \A q \in Callers \ {p} : pc[q] = "idle" /\ err[q] = "failed"

\* C40: no caller that has returned holds the breaker's mutex or waits for
\* it, and every call of Execute, State, FailureCount or SuccessCount,
\* whatever the others do, returns (each goroutine that can take a step
\* eventually takes it, the wrapped operation included).
C40_LocksBalancedAndLive ==
    /\ [](\A p \in Callers :
            pc[p] = "idle" => p \notin (mutex.readers \cup mutex.writers \cup mutex.pending))
    /\ \A p \in Callers : (pc[p] # "idle") ~> (pc[p] = "idle")

\* C40 witness: a caller of Execute on the Open to HalfOpen path has released
\* its read lock and is blocked in Lock while another caller holds the mutex
\* for reading.
C40_Witness ==
    \E p, q \in Callers :
        /\ p # q
        /\ pc[p] = "ce_locking"
        /\ p \in mutex.pending
        /\ p \notin mutex.readers
        /\ q \in mutex.readers
        /\ state = CircuitBreakerOpen

====
